---- MODULE Spec2Model ----
(***************************************************************************)
(* Progress Allocation & Reconciliation Engine of sentinel-backend.        *)
(*                                                                         *)
(* State: the rows of the relational store that the engine reads and       *)
(* writes (Physical, PhysicalStatusHistory, Estimation, EstimationDetail,  *)
(* CommitmentTracking, Schedule, Activity, CriticalPath,                   *)
(* CriticalPathActivity), the requests in flight and the last HTTP         *)
(* response.  One action per endpoint handler; where two requests are      *)
(* served at the same time, one action per statement of the handler.       *)
(* Dates are day numbers; decimal quantities are integers (hundredths      *)
(* where the scale matters).                                               *)
(***************************************************************************)
EXTENDS Integers, Sequences, FiniteSets, TLC

VARIABLES
    physical,        \* Physical rows: id -> [concept, volume, date, status]
    history,         \* PhysicalStatusHistory rows, in changed_at order
    nextPhysicalId,  \* AutoField counter of Physical
    today,           \* the current day (auto_now_add reads it)
    estimations,     \* Estimation rows: id -> record
    details,         \* EstimationDetail rows: id -> record
    nextDetailId,    \* AutoField counter of EstimationDetail
    commitments,     \* CommitmentTracking rows: id -> record
    nextCommitmentId,\* AutoField counter of CommitmentTracking
    schedActive,     \* Schedule.is_active, per schedule id
    schedName,       \* Schedule.name, per schedule id
    activities,      \* Activity rows: id -> record
    nextActivityId,  \* AutoField counter of Activity
    criticalPaths,   \* CriticalPath rows: id -> [schedule, calculated_at]
    criticalActivities, \* CriticalPathActivity rows
    nextCriticalPathId, \* AutoField counter of CriticalPath
    inflight,        \* requests a worker has started and not finished
    resp             \* the last response returned to a caller

ledgerVars == <<physical, history, nextPhysicalId>>
estVars    == <<estimations, details, nextDetailId>>
commitVars == <<commitments, nextCommitmentId>>
pathVars   == <<criticalPaths, criticalActivities, nextCriticalPathId>>
cronoVars  == <<schedActive, schedName, activities, nextActivityId,
                pathVars>>
vars == <<physical, history, nextPhysicalId, today, estimations, details,
          nextDetailId, commitments, nextCommitmentId, schedActive,
          schedName, activities, nextActivityId, criticalPaths, criticalActivities,
          nextCriticalPathId, inflight, resp>>

----------------------------------------------------------------------------
(* Bounds of the model *)

MaxPhysical == 2
MaxHistory == 2
MaxDay == 9
MaxDetails == 2
MaxCommitments == 1
MaxActivities == 3
MaxSchedules == 3
MaxRequests == 2
MaxEstimations == 4

Days == 1..MaxDay

----------------------------------------------------------------------------
(* Values a request can leave out, and the null of a nullable column *)

NoId == 0
Absent == -1
Null == -2

Max(a, b) == IF a >= b THEN a ELSE b
Min(a, b) == IF a <= b THEN a ELSE b

\* Sum('...') of an aggregate: the sum of f[x] over the rows x of S
RECURSIVE SumFn(_, _)
SumFn(f, S) ==
    IF S = {} THEN 0
    ELSE LET x == CHOOSE y \in S : TRUE IN f[x] + SumFn(f, S \ {x})

\* The ids of an AutoField table, ascending
RECURSIVE SortedIds(_)
SortedIds(S) ==
    IF S = {} THEN <<>>
    ELSE LET m == CHOOSE x \in S : \A y \in S : x <= y
         IN <<m>> \o SortedIds(S \ {m})

----------------------------------------------------------------------------
(* The concept catalog, constructions and users: read, never written, by   *)
(* the engine.                                                             *)

Concepts == {1, 2, 3}

ConceptQuantity(c)     == CASE c = 1 -> 100 [] c = 2 -> 60 [] OTHER -> 40
ConceptUnitPrice(c)    == CASE c = 1 -> 10 [] c = 2 -> 5 [] OTHER -> 2
ConceptActive(c)       == c \in {1, 2}
ConceptCatalog(c)      == IF c = 3 THEN 2 ELSE 1
ConceptWorkItem(c)     == IF c = 3 THEN 2 ELSE 1
CatalogConstruction(k) == k
ConceptConstruction(c) == CatalogConstruction(ConceptCatalog(c))

Users == {"anon", "staff", "resident"}
IsAuthenticated(u) == u # "anon"
IsStaff(u) == u = "staff"
\* UserConstruction rows with is_active = True
UserConstructions(u) == IF u = "resident" THEN {1} ELSE {}

\* user.is_authenticated and not user.is_staff
Restricted(u) == IsAuthenticated(u) /\ ~IsStaff(u)

----------------------------------------------------------------------------
(* Progress Ledger: Physical and PhysicalStatusHistory *)

PhysicalStatuses == {"PENDING", "APPROVED", "REJECTED"}

\* PhysicalSerializer field validation: validate_concept, validate_volume,
\* validate_status; p.partial is PATCH, where no field is required.
PhysicalPayloadValid(p) ==
    /\ IF p.concept = Absent THEN p.partial ELSE p.concept \in Concepts
    /\ IF p.volume = Absent THEN p.partial ELSE p.volume > 0
    /\ p.status \in PhysicalStatuses \cup {"ABSENT"}

\* has_access of perform_create / perform_update
HasAccess(u, c) == ConceptConstruction(c) \in UserConstructions(u)

\* get_queryset of PhysicalDetailView: the rows a user may address
VisiblePhysical(u) ==
    {i \in DOMAIN physical :
        Restricted(u) => HasAccess(u, physical[i].concept)}

\* The row Physical.objects.create stores: status is a writable serializer
\* field, the model default applies only when the payload has none.
NewPhysical(p) ==
    [concept |-> p.concept,
     volume  |-> p.volume,
     date    |-> today,
     status  |-> IF p.status = "ABSENT" THEN "PENDING" ELSE p.status]

PhysicalCreate(u, p) ==
    /\ nextPhysicalId <= MaxPhysical
    /\ IF ~PhysicalPayloadValid(p)
       THEN /\ resp' = [op |-> "physical_create", code |-> 400, user |-> u,
                        id |-> NoId]
            /\ UNCHANGED ledgerVars
       ELSE IF Restricted(u) /\ ~HasAccess(u, p.concept)
       THEN /\ resp' = [op |-> "physical_create", code |-> 403, user |-> u,
                        id |-> NoId]
            /\ UNCHANGED ledgerVars
       ELSE /\ physical' = physical @@ (nextPhysicalId :> NewPhysical(p))
            /\ nextPhysicalId' = nextPhysicalId + 1
            /\ resp' = [op |-> "physical_create", code |-> 201, user |-> u,
                        id |-> nextPhysicalId]
            /\ UNCHANGED history
    /\ UNCHANGED <<today, estVars, commitVars, cronoVars, inflight>>

\* serializer.save() of an update: the fields of the payload overwrite the row
UpdatedPhysical(row, p) ==
    [concept |-> IF p.concept = Absent THEN row.concept ELSE p.concept,
     volume  |-> IF p.volume = Absent THEN row.volume ELSE p.volume,
     date    |-> row.date,
     status  |-> IF p.status = "ABSENT" THEN row.status ELSE p.status]

\* changed_by=self.request.user if self.request.user.is_authenticated else None
ChangedBy(u) == IF IsAuthenticated(u) THEN u ELSE "null"

HistoryRow(i, old, new, u) ==
    [physical |-> i, previous_status |-> old, new_status |-> new,
     changed_at |-> today, changed_by |-> ChangedBy(u)]

HistoryAlwaysAppended(h, i, old, new, u) ==
    Append(h, HistoryRow(i, old, new, u))

\* A row that takes the model default as the previous status
HistoryFromDefault(h, i, old, new, u) ==
    IF old # new THEN Append(h, HistoryRow(i, "PENDING", new, u)) ELSE h

\* perform_update: "if old_status != updated_instance.status" appends a row
HistoryAfterUpdate(h, i, old, new, u) ==
    IF old # new THEN Append(h, HistoryRow(i, old, new, u)) ELSE h

PhysicalUpdate(u, i, p) ==
    /\ i \in 1..MaxPhysical
    /\ IF i \notin VisiblePhysical(u)
       THEN /\ resp' = [op |-> "physical_update", code |-> 404, user |-> u,
                        id |-> i, req |-> p]
            /\ UNCHANGED ledgerVars
       ELSE IF ~PhysicalPayloadValid(p)
       THEN /\ resp' = [op |-> "physical_update", code |-> 400, user |-> u,
                        id |-> i, req |-> p]
            /\ UNCHANGED ledgerVars
       ELSE IF p.concept # Absent /\ Restricted(u) /\ ~HasAccess(u, p.concept)
       THEN /\ resp' = [op |-> "physical_update", code |-> 403, user |-> u,
                        id |-> i, req |-> p]
            /\ UNCHANGED ledgerVars
       ELSE LET old == physical[i].status
                row == UpdatedPhysical(physical[i], p)
            IN /\ old # row.status => Len(history) < MaxHistory
               /\ physical' = [physical EXCEPT ![i] = row]
               /\ history' = HistoryAfterUpdate(history, i, old, row.status, u)
               /\ resp' = [op |-> "physical_update", code |-> 200, user |-> u,
                           id |-> i, req |-> p]
               /\ UNCHANGED nextPhysicalId
    /\ UNCHANGED <<today, estVars, commitVars, cronoVars, inflight>>

\* DestroyModelMixin: the row goes, and its history rows with it
\* (PhysicalStatusHistory.physical is on_delete=CASCADE)
PhysicalDelete(u, i) ==
    /\ i \in 1..MaxPhysical
    /\ IF i \notin VisiblePhysical(u)
       THEN /\ resp' = [op |-> "physical_delete", code |-> 404, user |-> u,
                        id |-> i]
            /\ UNCHANGED ledgerVars
       ELSE /\ physical' = [j \in DOMAIN physical \ {i} |-> physical[j]]
            /\ history' = SelectSeq(history, LAMBDA r : r.physical # i)
            /\ resp' = [op |-> "physical_delete", code |-> 204, user |-> u,
                        id |-> i]
            /\ UNCHANGED nextPhysicalId
    /\ UNCHANGED <<today, estVars, commitVars, cronoVars, inflight>>

\* A day passes
Tick(n) ==
    /\ today + n <= MaxDay
    /\ today' = today + n
    /\ resp' = [op |-> "tick", code |-> 0]
    /\ UNCHANGED <<ledgerVars, estVars, commitVars, cronoVars, inflight>>

----------------------------------------------------------------------------
(* Estimations and their line items (EstimationDetail) *)

Estimations == {1, 2, 3}
EstimationName(e) ==
    CASE e = 1 -> "Plan A" [] e = 2 -> "Plan B" [] OTHER -> "Real C"
\* f"Estimación planificada: {estimation.name}"
EstimationSource(e) ==
    CASE e = 1 -> "Estimacion planificada: Plan A"
      [] e = 2 -> "Estimacion planificada: Plan B"
      [] OTHER -> "Estimacion planificada: Real C"

\* Estimation.calculate_total: Sum of the amounts of the details of e, or 0
CalculateTotal(ds, e) ==
    SumFn([i \in DOMAIN ds |-> ds[i].amount],
          {i \in DOMAIN ds : ds[i].estimation = e})

\* Estimation.update_total: total_amount = calculate_total(); save()
UpdateTotal(es, ds, e) ==
    [es EXCEPT ![e].total_amount = CalculateTotal(ds, e)]

\* get_queryset of the estimation-item views: the details a user may address
VisibleDetails(u) ==
    {i \in DOMAIN details :
        Restricted(u) =>
            estimations[details[i].estimation].construction
                \in UserConstructions(u)}

\* The row an estimation-item payload describes, on top of `row`
MergedDetail(row, p) ==
    [estimation |-> IF p.estimation = Absent THEN row.estimation
                    ELSE p.estimation,
     concept    |-> IF p.concept = Absent THEN row.concept ELSE p.concept,
     volume     |-> IF p.volume = Absent THEN row.volume ELSE p.volume,
     amount     |-> IF p.amount = Absent THEN row.amount ELSE p.amount]

NoDetail ==
    [estimation |-> Absent, concept |-> Absent, volume |-> Absent,
     amount |-> Absent]

\* EstimationDetailSerializer: related fields must exist, validate_amount,
\* required fields unless partial, and the UniqueTogetherValidator of
\* Meta.unique_together = ['estimation', 'concept'] (the row itself excluded)
DetailPayloadValid(p, self) ==
    LET base == IF self = NoId THEN NoDetail ELSE details[self]
        row  == MergedDetail(base, p)
    IN /\ IF p.estimation = Absent THEN p.partial
          ELSE p.estimation \in DOMAIN estimations
       /\ IF p.concept = Absent THEN p.partial ELSE p.concept \in Concepts
       /\ p.volume = Absent => p.partial
       /\ IF p.amount = Absent THEN p.partial ELSE p.amount > 0
       /\ ~\E j \in DOMAIN details \ {self} :
              /\ details[j].estimation = row.estimation
              /\ details[j].concept = row.concept

\* perform_create: detail = serializer.save(); detail.estimation.update_total()
EstimationItemCreate(u, p) ==
    /\ nextDetailId <= MaxDetails
    /\ IF ~DetailPayloadValid(p, NoId)
       THEN /\ resp' = [op |-> "item_create", code |-> 400, user |-> u,
                        id |-> NoId]
            /\ UNCHANGED estVars
       ELSE LET ds == details @@ (nextDetailId :> MergedDetail(NoDetail, p))
            IN /\ details' = ds
               /\ estimations' = UpdateTotal(estimations, ds, p.estimation)
               /\ nextDetailId' = nextDetailId + 1
               /\ resp' = [op |-> "item_create", code |-> 201, user |-> u,
                           id |-> nextDetailId]
    /\ UNCHANGED <<ledgerVars, today, commitVars, cronoVars, inflight>>

\* The estimations whose total perform_update recomputes: the estimation
\* the saved detail now points to (detail.estimation.update_total())
TotalsAfterUpdate(es, ds, old, new) == UpdateTotal(es, ds, new)

\* perform_update: detail = serializer.save(); detail.estimation.update_total()
EstimationItemUpdate(u, i, p) ==
    /\ i \in 1..MaxDetails
    /\ IF i \notin VisibleDetails(u)
       THEN /\ resp' = [op |-> "item_update", code |-> 404, user |-> u,
                        id |-> i]
            /\ UNCHANGED estVars
       ELSE IF ~DetailPayloadValid(p, i)
       THEN /\ resp' = [op |-> "item_update", code |-> 400, user |-> u,
                        id |-> i]
            /\ UNCHANGED estVars
       ELSE LET row == MergedDetail(details[i], p)
                ds  == [details EXCEPT ![i] = row]
            IN /\ details' = ds
               /\ estimations' = TotalsAfterUpdate(estimations, ds,
                                     details[i].estimation, row.estimation)
               /\ resp' = [op |-> "item_update", code |-> 200, user |-> u,
                           id |-> i]
               /\ UNCHANGED nextDetailId
    /\ UNCHANGED <<ledgerVars, today, commitVars, cronoVars, inflight>>

\* perform_destroy: estimation = instance.estimation; instance.delete();
\* estimation.update_total().  CommitmentTracking rows of the detail go with
\* it (estimation_detail is on_delete=CASCADE).
EstimationItemDelete(u, i) ==
    /\ i \in 1..MaxDetails
    /\ IF i \notin VisibleDetails(u)
       THEN /\ resp' = [op |-> "item_delete", code |-> 404, user |-> u,
                        id |-> i]
            /\ UNCHANGED <<estVars, commitVars>>
       ELSE LET ds == [j \in DOMAIN details \ {i} |-> details[j]]
                keep == {k \in DOMAIN commitments :
                            commitments[k].estimation_detail # i}
            IN /\ details' = ds
               /\ estimations' =
                      UpdateTotal(estimations, ds, details[i].estimation)
               /\ commitments' = [k \in keep |-> commitments[k]]
               /\ resp' = [op |-> "item_delete", code |-> 204, user |-> u,
                           id |-> i]
               /\ UNCHANGED <<nextDetailId, nextCommitmentId>>
    /\ UNCHANGED <<ledgerVars, today, cronoVars, inflight>>

\* EstimationSerializer: every model field is writable, total_amount
\* included (no read_only_fields); validate() compares the period ends
\* when both are given; a full payload must carry the required fields
EstimationPayloadValid(p) ==
    /\ ~p.partial => p.period_start # Absent /\ p.period_end # Absent
    /\ (p.period_start # Absent /\ p.period_end # Absent) =>
          p.period_start <= p.period_end

\* The row serializer.save() stores for a new Estimation: the model
\* defaults where the payload is silent (total_amount 0, status DRAFT,
\* is_planned False); requests of the model create estimations of
\* construction 1
NewEstimation(p) ==
    [total_amount |-> IF p.total_amount = Absent THEN 0 ELSE p.total_amount,
     is_planned   |-> FALSE,
     status       |-> "DRAFT",
     period_start |-> p.period_start,
     period_end   |-> p.period_end,
     construction |-> 1]

\* EstimationListCreateView.perform_create: instance = serializer.save().
\* No estimation is deleted in the model, so the AutoField gives the
\* number of rows plus one.
EstimationCreate(u, p) ==
    /\ IF p.partial \/ ~EstimationPayloadValid(p)
       THEN /\ resp' = [op |-> "estimation_create", code |-> 400,
                        id |-> NoId, req |-> p]
            /\ UNCHANGED estimations
       ELSE LET e == Cardinality(DOMAIN estimations) + 1
            IN /\ estimations' = estimations @@ (e :> NewEstimation(p))
               /\ resp' = [op |-> "estimation_create", code |-> 201,
                           id |-> e, req |-> p]
    /\ UNCHANGED <<ledgerVars, today, details, nextDetailId, commitVars,
                   cronoVars, inflight>>

\* ModelSerializer.update: setattr for every field of the payload, save()
UpdatedEstimation(row, p) ==
    [row EXCEPT
        !.total_amount =
            IF p.total_amount = Absent THEN @ ELSE p.total_amount,
        !.period_start =
            IF p.period_start = Absent THEN @ ELSE p.period_start,
        !.period_end = IF p.period_end = Absent THEN @ ELSE p.period_end]

\* EstimationDetailView update / partial_update
EstimationUpdate(u, e, p) ==
    /\ IF \/ e \notin DOMAIN estimations
          \/ (Restricted(u)
                /\ estimations[e].construction \notin UserConstructions(u))
       THEN /\ resp' = [op |-> "estimation_update", code |-> 404,
                        id |-> e, req |-> p]
            /\ UNCHANGED estimations
       ELSE IF ~EstimationPayloadValid(p)
       THEN /\ resp' = [op |-> "estimation_update", code |-> 400,
                        id |-> e, req |-> p]
            /\ UNCHANGED estimations
       ELSE /\ estimations' =
                  [estimations EXCEPT ![e] = UpdatedEstimation(@, p)]
            /\ resp' = [op |-> "estimation_update", code |-> 200,
                        id |-> e, req |-> p]
    /\ UNCHANGED <<ledgerVars, today, details, nextDetailId, commitVars,
                   cronoVars, inflight>>

----------------------------------------------------------------------------
(* The estimation-item handlers statement by statement.  No handler opens  *)
(* a transaction or locks a row, so the statements of two requests that    *)
(* workers serve at the same time interleave.  inflight[r] is the position *)
(* of request r and the values its handler holds.                          *)

Requests == 1..MaxRequests
At(r, pc) == r \in DOMAIN inflight /\ inflight[r].pc = pc
Position(pc, e, total, code) ==
    [pc |-> pc, estimation |-> e, total |-> total, code |-> code]

\* perform_create, first statement: detail = serializer.save()
ItemCreateSave(r, p) ==
    /\ r \notin DOMAIN inflight
    /\ nextDetailId <= MaxDetails
    /\ IF ~DetailPayloadValid(p, NoId)
       THEN /\ inflight' = inflight @@ (r :> Position("done", NoId, 0, 400))
            /\ resp' = [op |-> "item_write", code |-> 400, request |-> r]
            /\ UNCHANGED estVars
       ELSE /\ details' =
                  details @@ (nextDetailId :> MergedDetail(NoDetail, p))
            /\ nextDetailId' = nextDetailId + 1
            /\ inflight' =
                  inflight @@ (r :> Position("saved", p.estimation, 0, 201))
            /\ UNCHANGED <<estimations, resp>>
    /\ UNCHANGED <<ledgerVars, today, commitVars, cronoVars>>

\* perform_update, first statement: detail = serializer.save()
ItemUpdateSave(r, i, p) ==
    /\ r \notin DOMAIN inflight
    /\ IF i \notin DOMAIN details
       THEN /\ inflight' = inflight @@ (r :> Position("done", NoId, 0, 404))
            /\ resp' = [op |-> "item_write", code |-> 404, request |-> r]
            /\ UNCHANGED estVars
       ELSE IF ~DetailPayloadValid(p, i)
       THEN /\ inflight' = inflight @@ (r :> Position("done", NoId, 0, 400))
            /\ resp' = [op |-> "item_write", code |-> 400, request |-> r]
            /\ UNCHANGED estVars
       ELSE LET row == MergedDetail(details[i], p)
            IN /\ details' = [details EXCEPT ![i] = row]
               /\ inflight' =
                     inflight @@ (r :> Position("saved", row.estimation, 0,
                                               200))
               /\ UNCHANGED <<estimations, nextDetailId, resp>>
    /\ UNCHANGED <<ledgerVars, today, commitVars, cronoVars>>

\* perform_destroy, first statements: estimation = instance.estimation;
\* instance.delete()
ItemDeleteSave(r, i) ==
    /\ r \notin DOMAIN inflight
    /\ IF i \notin DOMAIN details
       THEN /\ inflight' = inflight @@ (r :> Position("done", NoId, 0, 404))
            /\ resp' = [op |-> "item_write", code |-> 404, request |-> r]
            /\ UNCHANGED <<estVars, commitVars>>
       ELSE LET keep == {k \in DOMAIN commitments :
                            commitments[k].estimation_detail # i}
            IN /\ details' = [j \in DOMAIN details \ {i} |-> details[j]]
               /\ commitments' = [k \in keep |-> commitments[k]]
               /\ inflight' =
                     inflight @@ (r :> Position("saved",
                                               details[i].estimation, 0, 204))
               /\ UNCHANGED <<estimations, nextDetailId, nextCommitmentId,
                              resp>>
    /\ UNCHANGED <<ledgerVars, today, cronoVars>>

\* update_total, right-hand side: self.calculate_total()
ItemReadTotal(r) ==
    /\ At(r, "saved")
    /\ inflight' =
          [inflight EXCEPT ![r].pc = "read",
                           ![r].total =
                              CalculateTotal(details, inflight[r].estimation)]
    /\ UNCHANGED <<ledgerVars, today, estVars, commitVars, cronoVars, resp>>

\* The sum of the details as they are when the total is saved
TotalAtSave(r) == CalculateTotal(details, inflight[r].estimation)

\* self.total_amount as update_total assigned it before save()
TotalToSave(r) == inflight[r].total

\* update_total: self.save(update_fields=['total_amount']), and the
\* response of the request
ItemSaveTotal(r) ==
    /\ At(r, "read")
    /\ estimations' =
          [estimations EXCEPT
              ![inflight[r].estimation].total_amount = TotalToSave(r)]
    /\ inflight' = [inflight EXCEPT ![r].pc = "done"]
    /\ resp' = [op |-> "item_write", code |-> inflight[r].code,
                request |-> r]
    /\ UNCHANGED <<ledgerVars, today, details, nextDetailId, commitVars,
                   cronoVars>>

----------------------------------------------------------------------------
(* The update of a Physical record statement by statement; as above, no    *)
(* transaction or lock keeps two requests apart.  inflight[r] holds the    *)
(* instance UpdateModelMixin.update fetched, and old_status once read.     *)

\* UpdateModelMixin.update: instance = self.get_object();
\* serializer.is_valid(raise_exception=True)
StatusFetch(r, u, i, p) ==
    /\ r \notin DOMAIN inflight
    /\ IF i \notin VisiblePhysical(u)
       THEN /\ inflight' = inflight @@ (r :> [pc |-> "done", id |-> i])
            /\ resp' = [op |-> "status_write", code |-> 404, request |-> r]
       ELSE IF ~PhysicalPayloadValid(p)
       THEN /\ inflight' = inflight @@ (r :> [pc |-> "done", id |-> i])
            /\ resp' = [op |-> "status_write", code |-> 400, request |-> r]
       ELSE /\ inflight' =
                  inflight @@ (r :> [pc |-> "fetched", id |-> i, user |-> u,
                                     req |-> p, instance |-> physical[i],
                                     old_status |-> "ABSENT"])
            /\ UNCHANGED resp
    /\ UNCHANGED <<ledgerVars, today, estVars, commitVars, cronoVars>>

\* perform_update: instance = self.get_object();
\* old_status = instance.status
\* and the access check on a concept the payload carries
StatusReadOld(r) ==
    /\ At(r, "fetched")
    /\ IF /\ inflight[r].req.concept # Absent
          /\ Restricted(inflight[r].user)
          /\ ~HasAccess(inflight[r].user, inflight[r].req.concept)
       THEN /\ inflight' = [inflight EXCEPT ![r].pc = "done"]
            /\ resp' = [op |-> "status_write", code |-> 403, request |-> r]
       ELSE /\ inflight' =
                  [inflight EXCEPT
                      ![r].pc = "read",
                      ![r].old_status = physical[inflight[r].id].status]
            /\ UNCHANGED resp
    /\ UNCHANGED <<ledgerVars, today, estVars, commitVars, cronoVars>>

\* perform_update: updated_instance = serializer.save().  The fields of
\* the payload are set on the instance update() fetched and the whole row
\* is written.
StatusSave(r) ==
    /\ At(r, "read")
    /\ LET row == UpdatedPhysical(inflight[r].instance, inflight[r].req)
       IN /\ physical' = [physical EXCEPT ![inflight[r].id] = row]
          /\ inflight' = [inflight EXCEPT ![r].pc = "saved",
                                          ![r].instance = row]
    /\ UNCHANGED <<history, nextPhysicalId, today, estVars, commitVars,
                   cronoVars, resp>>

\* The status of the instance the request holds
StatusAtFetch(r) == inflight[r].instance.status

\* old_status of perform_update
OldStatus(r) == inflight[r].old_status

\* perform_update: if old_status != updated_instance.status:
\* PhysicalStatusHistory.objects.create(...), and the response
StatusRecord(r) ==
    /\ At(r, "saved")
    /\ history' = HistoryAfterUpdate(history, inflight[r].id, OldStatus(r),
                                     inflight[r].instance.status,
                                     inflight[r].user)
    /\ inflight' = [inflight EXCEPT ![r].pc = "done"]
    /\ resp' = [op |-> "status_write", code |-> 200, request |-> r]
    /\ UNCHANGED <<physical, nextPhysicalId, today, estVars, commitVars,
                   cronoVars>>

----------------------------------------------------------------------------
(* Commitment Tracker.  Volumes are in hundredths (DecimalField with        *)
(* decimal_places=2); variance_percentage is in hundredths of a percent.   *)

\* Integer division rounding to the nearest integer, ties to even: the
\* quantize to decimal_places=2 that saving a DecimalField applies
RoundDiv(n, d) ==
    LET q == n \div d
        r == n % d
    IN IF 2 * r < d THEN q
       ELSE IF 2 * r > d THEN q + 1
       ELSE IF q % 2 = 0 THEN q ELSE q + 1

\* variance = ((actual - planned) / planned) * 100, as stored
Variance(planned, actual) == RoundDiv((actual - planned) * 10000, planned)

\* variance_percentage is DecimalField(max_digits=6, decimal_places=2)
VarianceDigits == 6
RECURSIVE Pow10(_)
Pow10(n) == IF n = 0 THEN 1 ELSE 10 * Pow10(n - 1)
VarianceFits(v) == v = Null \/ (-Pow10(VarianceDigits) < v /\ v < Pow10(VarianceDigits))

\* CommitmentTrackingSerializer.validate, and the required fields
CommitmentPayloadValid(p) ==
    /\ IF p.estimation_detail = Absent THEN p.partial
       ELSE p.estimation_detail \in DOMAIN details
    /\ IF p.planned_volume = Absent THEN p.partial ELSE p.planned_volume > 0
    /\ p.actual_volume \notin {Absent, Null} => p.actual_volume >= 0

\* CommitmentTrackingSerializer.create: the variance written with a new row
VarianceOnCreate(p) ==
    IF p.actual_volume \notin {Absent, Null} /\ p.planned_volume > 0
    THEN Variance(p.planned_volume, p.actual_volume)
    ELSE Null

CommitmentCreate(p) ==
    /\ nextCommitmentId <= MaxCommitments
    /\ IF ~CommitmentPayloadValid(p)
       THEN /\ resp' = [op |-> "commitment_create", code |-> 400, id |-> NoId]
            /\ UNCHANGED commitVars
       ELSE IF ~VarianceFits(VarianceOnCreate(p))
       THEN /\ resp' = [op |-> "commitment_create", code |-> 500, id |-> NoId]
            /\ UNCHANGED commitVars
       ELSE /\ commitments' = commitments @@ (nextCommitmentId :>
                  [estimation_detail   |-> p.estimation_detail,
                   planned_volume      |-> p.planned_volume,
                   actual_volume       |-> IF p.actual_volume = Absent
                                           THEN Null ELSE p.actual_volume,
                   variance_percentage |-> VarianceOnCreate(p)])
            /\ nextCommitmentId' = nextCommitmentId + 1
            /\ resp' = [op |-> "commitment_create", code |-> 201,
                        id |-> nextCommitmentId]
    /\ UNCHANGED <<ledgerVars, today, estVars, cronoVars, inflight>>

\* CommitmentTrackingSerializer.update: the variance is rewritten only when
\* the resulting actual is not None and planned > 0; otherwise the stored
\* variance_percentage is left as it was.
VarianceOnUpdate(row, p) ==
    LET planned == IF p.planned_volume = Absent THEN row.planned_volume
                   ELSE p.planned_volume
        actual  == IF p.actual_volume = Absent THEN row.actual_volume
                   ELSE p.actual_volume
    IN IF actual # Null /\ planned > 0 THEN Variance(planned, actual)
       ELSE row.variance_percentage

CommitmentUpdate(k, p) ==
    /\ k \in 1..MaxCommitments
    /\ IF k \notin DOMAIN commitments
       THEN /\ resp' = [op |-> "commitment_update", code |-> 404, id |-> k]
            /\ UNCHANGED commitVars
       ELSE IF ~CommitmentPayloadValid(p)
       THEN /\ resp' = [op |-> "commitment_update", code |-> 400, id |-> k]
            /\ UNCHANGED commitVars
       ELSE IF ~VarianceFits(VarianceOnUpdate(commitments[k], p))
       THEN /\ resp' = [op |-> "commitment_update", code |-> 500, id |-> k]
            /\ UNCHANGED commitVars
       ELSE LET row == commitments[k]
            IN /\ commitments' = [commitments EXCEPT ![k] =
                     [estimation_detail   |->
                          IF p.estimation_detail = Absent
                          THEN row.estimation_detail ELSE p.estimation_detail,
                      planned_volume      |->
                          IF p.planned_volume = Absent
                          THEN row.planned_volume ELSE p.planned_volume,
                      actual_volume       |->
                          IF p.actual_volume = Absent
                          THEN row.actual_volume ELSE p.actual_volume,
                      variance_percentage |-> VarianceOnUpdate(row, p)]]
               /\ resp' = [op |-> "commitment_update", code |-> 200, id |-> k]
               /\ UNCHANGED nextCommitmentId
    /\ UNCHANGED <<ledgerVars, today, estVars, cronoVars, inflight>>

CommitmentDelete(k) ==
    /\ k \in 1..MaxCommitments
    /\ IF k \notin DOMAIN commitments
       THEN /\ resp' = [op |-> "commitment_delete", code |-> 404, id |-> k]
            /\ UNCHANGED commitVars
       ELSE /\ commitments' = [j \in DOMAIN commitments \ {k} |-> commitments[j]]
            /\ resp' = [op |-> "commitment_delete", code |-> 204, id |-> k]
            /\ UNCHANGED nextCommitmentId
    /\ UNCHANGED <<ledgerVars, today, estVars, cronoVars, inflight>>

----------------------------------------------------------------------------
(* Schedules and their activities.  Read by the allocator.                 *)

Schedules == DOMAIN schedActive
ScheduleName(s) == schedName[s]
\* f"Cronograma: {schedule.name}"
ScheduleSource(s) == "Cronograma: " \o ScheduleName(s)
\* every schedule of the model belongs to construction 1 (a duplicate
\* copies the construction of its original)
ScheduleConstruction(s) == 1

\* Activity rows
Activities == DOMAIN activities
ActivitySchedule(a) == activities[a].schedule
ActivityStart(a) == activities[a].start_date
ActivityEnd(a) == activities[a].end_date
\* ActivityConcept rows
ActivityConcepts(a) == activities[a].concepts

\* schedule.activities: the reverse side of Activity.schedule
ScheduleActivities(s) == {a \in Activities : ActivitySchedule(a) = s}

\* ScheduleViewSet.get_queryset, ActivityViewSet.get_queryset and
\* CriticalPathViewSet.get_queryset: a user who is not staff sees the
\* rows of the constructions assigned to them
SeesSchedule(u, s) ==
    /\ s \in Schedules
    /\ Restricted(u) => ScheduleConstruction(s) \in UserConstructions(u)

\* ScheduleViewSet.deactivate: schedule = self.get_object();
\* schedule.deactivate().  The viewset requires an authenticated user.
ScheduleDeactivate(u, s) ==
    /\ IsAuthenticated(u)
    /\ IF s \notin Schedules
          \/ (Restricted(u) /\ ScheduleConstruction(s) \notin UserConstructions(u))
       THEN /\ resp' = [op |-> "schedule_deactivate", code |-> 404, id |-> s]
            /\ UNCHANGED schedActive
       ELSE /\ schedActive' = [schedActive EXCEPT ![s] = FALSE]
            /\ resp' = [op |-> "schedule_deactivate", code |-> 200, id |-> s]
    /\ UNCHANGED <<ledgerVars, today, estVars, commitVars, schedName,
                   activities, nextActivityId, pathVars, inflight>>

\* ScheduleDetailSerializer: name and is_active are writable fields
\* (is_active arrives as "true" or "false", "ABSENT" when left out)
\* (read_only_fields is id, created_at, updated_at); a full update has to
\* carry the required field name
SchedulePayloadValid(p) ==
    /\ p.is_active \in {"true", "false", "ABSENT"}
    /\ ~p.partial => p.name # "ABSENT"

\* ScheduleViewSet update / partial_update (ModelViewSet):
\* serializer.save() sets every field the payload carries
ScheduleUpdate(u, s, p) ==
    /\ IsAuthenticated(u)
    /\ IF ~SeesSchedule(u, s)
       THEN /\ resp' = [op |-> "schedule_update", code |-> 404, id |-> s]
            /\ UNCHANGED <<schedActive, schedName>>
       ELSE IF ~SchedulePayloadValid(p)
       THEN /\ resp' = [op |-> "schedule_update", code |-> 400, id |-> s]
            /\ UNCHANGED <<schedActive, schedName>>
       ELSE /\ schedActive' =
                  [schedActive EXCEPT ![s] =
                      IF p.is_active = "ABSENT" THEN @
                      ELSE p.is_active = "true"]
            /\ schedName' =
                  [schedName EXCEPT ![s] =
                      IF p.name = "ABSENT" THEN @ ELSE p.name]
            /\ resp' = [op |-> "schedule_update", code |-> 200, id |-> s]
    /\ UNCHANGED <<ledgerVars, today, estVars, commitVars, activities,
                   nextActivityId, pathVars, inflight>>

\* The copies ScheduleViewSet.duplicate makes of the activities of
\* schedule s for the new schedule n: same dates and concepts,
\* progress_percentage=0.0; ids in the order of Activity.Meta.ordering
\* need not be modelled, any order gives the same set of rows
RECURSIVE CopiedActivities(_, _, _, _)
CopiedActivities(acts, ids, n, next) ==
    IF ids = <<>> THEN acts
    ELSE CopiedActivities(
            acts @@ (next :> [activities[Head(ids)] EXCEPT
                                 !.schedule = n,
                                 !.progress_percentage = 0]),
            Tail(ids), n, next + 1)

\* ScheduleViewSet.duplicate
ScheduleDuplicate(u, s) ==
    /\ IsAuthenticated(u)
    /\ IF ~SeesSchedule(u, s)
       THEN /\ resp' = [op |-> "schedule_duplicate", code |-> 404, id |-> s]
            /\ UNCHANGED <<schedActive, schedName, activities,
                           nextActivityId>>
       ELSE LET \* AutoField: no schedule row is ever deleted, so the next
                \* id is one more than the number of rows
                n == Cardinality(Schedules) + 1
                ids == SortedIds(ScheduleActivities(s))
            IN /\ schedActive' = schedActive @@ (n :> TRUE)
               /\ schedName' =
                     schedName @@ (n :> ("Copia de " \o ScheduleName(s)))
               /\ activities' =
                     CopiedActivities(activities, ids, n, nextActivityId)
               /\ nextActivityId' = nextActivityId + Len(ids)
               /\ resp' = [op |-> "schedule_duplicate", code |-> 201,
                           id |-> n, original |-> s]
    /\ UNCHANGED <<ledgerVars, today, estVars, commitVars, pathVars,
                   inflight>>

\* progress_percentage = DecimalField(max_digits=5, decimal_places=2):
\* the serializer field accepts at most three integer digits
ProgressDigits == 3
ProgressFits(v) == v > -Pow10(ProgressDigits) /\ v < Pow10(ProgressDigits)

\* ActivitySerializer validation: the fields of the model, no validate
\* method; schedule is a PrimaryKeyRelatedField over all schedules,
\* concepts one over all concepts ({Absent} when the payload has no
\* concepts); progress_percentage has a default
ActivityPayloadValid(p) ==
    /\ p.schedule # Absent => p.schedule \in Schedules
    /\ p.progress_percentage # Absent => ProgressFits(p.progress_percentage)
    /\ p.concepts # {Absent} => p.concepts \subseteq Concepts
    /\ ~p.partial =>
          p.schedule # Absent /\ p.start_date # Absent /\ p.end_date # Absent

\* ActivitySerializer.create: Activity.objects.create(**validated_data),
\* then one ActivityConcept per concept.  Activity.clean is not called.
NewActivity(p) ==
    [schedule |-> p.schedule,
     start_date |-> p.start_date,
     end_date |-> p.end_date,
     progress_percentage |->
        IF p.progress_percentage = Absent THEN 0 ELSE p.progress_percentage,
     concepts |-> IF p.concepts = {Absent} THEN {} ELSE p.concepts]

\* ActivityViewSet create (ModelViewSet)
ActivityCreate(u, p) ==
    /\ IsAuthenticated(u)
    /\ IF p.partial \/ ~ActivityPayloadValid(p)
       THEN /\ resp' = [op |-> "activity_create", code |-> 400]
            /\ UNCHANGED <<activities, nextActivityId>>
       ELSE /\ activities' = activities @@ (nextActivityId :> NewActivity(p))
            /\ nextActivityId' = nextActivityId + 1
            /\ resp' = [op |-> "activity_create", code |-> 201,
                        id |-> nextActivityId]
    /\ UNCHANGED <<ledgerVars, today, estVars, commitVars, schedActive,
                   schedName, pathVars, inflight>>

\* ActivitySerializer.update: setattr for every validated field, save,
\* and the associations replaced when concepts is given
UpdatedActivity(row, p) ==
    [schedule |-> IF p.schedule = Absent THEN row.schedule ELSE p.schedule,
     start_date |->
        IF p.start_date = Absent THEN row.start_date ELSE p.start_date,
     end_date |-> IF p.end_date = Absent THEN row.end_date ELSE p.end_date,
     progress_percentage |->
        IF p.progress_percentage = Absent THEN row.progress_percentage
        ELSE p.progress_percentage,
     concepts |-> IF p.concepts = {Absent} THEN row.concepts ELSE p.concepts]

\* get_object of ActivityViewSet
SeesActivity(u, a) ==
    a \in Activities /\ SeesSchedule(u, ActivitySchedule(a))

\* ActivityViewSet update / partial_update (ModelViewSet)
ActivityUpdate(u, a, p) ==
    /\ IsAuthenticated(u)
    /\ IF ~SeesActivity(u, a)
       THEN /\ resp' = [op |-> "activity_update", code |-> 404, id |-> a]
            /\ UNCHANGED activities
       ELSE IF ~ActivityPayloadValid(p)
       THEN /\ resp' = [op |-> "activity_update", code |-> 400, id |-> a]
            /\ UNCHANGED activities
       ELSE /\ activities' =
                  [activities EXCEPT ![a] = UpdatedActivity(@, p)]
            /\ resp' = [op |-> "activity_update", code |-> 200, id |-> a]
    /\ UNCHANGED <<ledgerVars, today, estVars, commitVars, schedActive,
                   schedName, nextActivityId, pathVars, inflight>>

\* A function without one of its arguments (a deleted row)
Without(f, x) == [y \in DOMAIN f \ {x} |-> f[y]]

\* ActivityViewSet destroy (ModelViewSet).  CriticalPathActivity.activity
\* is on_delete=CASCADE.
ActivityDelete(u, a) ==
    /\ IsAuthenticated(u)
    /\ IF ~SeesActivity(u, a)
       THEN /\ resp' = [op |-> "activity_delete", code |-> 404, id |-> a]
            /\ UNCHANGED <<activities, criticalActivities>>
       ELSE /\ activities' = Without(activities, a)
            /\ criticalActivities' =
                  {r \in criticalActivities : r.activity # a}
            /\ resp' = [op |-> "activity_delete", code |-> 204, id |-> a]
    /\ UNCHANGED <<ledgerVars, today, estVars, commitVars, schedActive,
                   schedName, nextActivityId, criticalPaths,
                   nextCriticalPathId, inflight>>

\* ActivityViewSet.update_progress.  progress is what
\* request.data.get('progress_percentage') gives: kind "none" (missing),
\* "text" (float() raises ValueError) or "number" with its value
ActivityUpdateProgress(u, a, progress) ==
    /\ IsAuthenticated(u)
    /\ IF ~SeesActivity(u, a)
       THEN /\ resp' = [op |-> "update_progress", code |-> 404, id |-> a,
                        req |-> progress]
            /\ UNCHANGED activities
       ELSE IF progress.kind = "none"
       THEN /\ resp' = [op |-> "update_progress", code |-> 400, id |-> a,
                        req |-> progress]
            /\ UNCHANGED activities
       ELSE IF progress.kind = "text"
       THEN /\ resp' = [op |-> "update_progress", code |-> 400, id |-> a,
                        req |-> progress]
            /\ UNCHANGED activities
       ELSE IF progress.value < 0 \/ progress.value > 100
       THEN /\ resp' = [op |-> "update_progress", code |-> 400, id |-> a,
                        req |-> progress]
            /\ UNCHANGED activities
       ELSE /\ activities' =
                  [activities EXCEPT ![a].progress_percentage =
                                        progress.value]
            /\ resp' = [op |-> "update_progress", code |-> 200, id |-> a,
                        req |-> progress]
    /\ UNCHANGED <<ledgerVars, today, estVars, commitVars, schedActive,
                   schedName, nextActivityId, pathVars, inflight>>

----------------------------------------------------------------------------
(* Critical Path Selector *)

\* schedule.activities.all().order_by('start_date'): the rows in an order
\* of ascending start_date; the store may return rows of equal start_date
\* in any order
StartDateOrders(s) ==
    LET acts == ScheduleActivities(s)
        n == Cardinality(acts)
    IN {o \in [1..n -> acts] :
          /\ \A i, j \in 1..n : i # j => o[i] # o[j]
          /\ \A i \in 1..(n - 1) :
                ActivityStart(o[i]) <= ActivityStart(o[i + 1])}

\* A selection that stops after the first activity
FirstActivityOnly(order, idx, selected) == <<order[1]>>

\* for idx, activity in enumerate(activities):
\*     if idx == 0 or activity.start_date >= current_end: ...
\* idx counts from 1 here; current_end is the end_date of the last
\* selected activity
RECURSIVE SelectedActivities(_, _, _)
SelectedActivities(order, idx, selected) ==
    IF idx > Len(order) THEN selected
    ELSE LET activity == order[idx]
         IN IF idx = 1
               \/ ActivityStart(activity) >=
                     ActivityEnd(selected[Len(selected)])
            THEN SelectedActivities(order, idx + 1,
                                    Append(selected, activity))
            ELSE SelectedActivities(order, idx + 1, selected)

\* The path of a schedule (CriticalPath.schedule is a OneToOneField)
PathOf(s) == {k \in DOMAIN criticalPaths : criticalPaths[k].schedule = s}

\* The critical activities left after nothing was deleted
AllCriticalRows(rows, k) == rows

\* critical_path.critical_activities.all().delete()
WithoutCriticalRows(rows, k) == {r \in rows : r.critical_path # k}

\* CriticalPathActivity.objects.create(critical_path=..., activity=...,
\* sequence_order=idx + 1) for every selected activity
NewCriticalRows(k, selected) ==
    {[critical_path |-> k, activity |-> selected[i], sequence_order |-> i] :
        i \in 1..Len(selected)}

\* A calculation that runs update_or_create before it looks for the
\* schedule's activities
CalculateStampingFirst(u, sid) ==
    /\ IsAuthenticated(u)
    /\ IF sid = NoId
       THEN /\ resp' = [op |-> "calculate", code |-> 400, schedule |-> sid]
            /\ UNCHANGED pathVars
       ELSE IF sid \notin Schedules
       THEN /\ resp' = [op |-> "calculate", code |-> 404, schedule |-> sid]
            /\ UNCHANGED pathVars
       ELSE LET created == PathOf(sid) = {}
                k == IF created THEN nextCriticalPathId
                     ELSE CHOOSE x \in PathOf(sid) : TRUE
            IN /\ criticalPaths' =
                     IF created
                     THEN criticalPaths @@
                             (k :> [schedule |-> sid,
                                    calculated_at |-> today])
                     ELSE [criticalPaths EXCEPT ![k].calculated_at = today]
               /\ nextCriticalPathId' =
                     IF created THEN nextCriticalPathId + 1
                     ELSE nextCriticalPathId
               /\ IF ScheduleActivities(sid) = {}
                  THEN /\ resp' = [op |-> "calculate", code |-> 400,
                                   schedule |-> sid]
                       /\ UNCHANGED criticalActivities
                  ELSE \E order \in StartDateOrders(sid) :
                         /\ criticalActivities' =
                               WithoutCriticalRows(criticalActivities, k)
                                  \cup NewCriticalRows(
                                          k, SelectedActivities(order, 1,
                                                                <<>>))
                         /\ resp' = [op |-> "calculate", code |-> 200,
                                     schedule |-> sid, critical_path |-> k,
                                     created |-> created]
    /\ UNCHANGED <<ledgerVars, today, estVars, commitVars, schedActive,
                   schedName, activities, nextActivityId, inflight>>

\* CriticalPathViewSet.calculate.  sid = NoId is a request without
\* schedule_id.  unique_together (critical_path, activity) cannot be
\* violated: the rows of the path were deleted before and the selected
\* activities are distinct.
CriticalPathCalculate(u, sid) ==
    /\ IsAuthenticated(u)
    /\ IF sid = NoId
       THEN /\ resp' = [op |-> "calculate", code |-> 400, schedule |-> sid]
            /\ UNCHANGED pathVars
       ELSE IF sid \notin Schedules
       THEN /\ resp' = [op |-> "calculate", code |-> 404, schedule |-> sid]
            /\ UNCHANGED pathVars
       ELSE IF ScheduleActivities(sid) = {}
       THEN /\ resp' = [op |-> "calculate", code |-> 400, schedule |-> sid]
            /\ UNCHANGED pathVars
       ELSE \E order \in StartDateOrders(sid) :
              LET created == PathOf(sid) = {}
                  k == IF created THEN nextCriticalPathId
                       ELSE CHOOSE x \in PathOf(sid) : TRUE
                  selected == SelectedActivities(order, 1, <<>>)
              IN \* defaults={'calculated_at': timezone.now(), ...}
                 /\ criticalPaths' =
                       IF created
                       THEN criticalPaths @@
                               (k :> [schedule |-> sid,
                                      calculated_at |-> today])
                       ELSE [criticalPaths EXCEPT
                                ![k].calculated_at = today]
                 /\ nextCriticalPathId' =
                       IF created THEN nextCriticalPathId + 1
                       ELSE nextCriticalPathId
                 /\ criticalActivities' =
                       WithoutCriticalRows(criticalActivities, k)
                          \cup NewCriticalRows(k, selected)
                 \* created is the flag update_or_create returned
                 /\ resp' = [op |-> "calculate", code |-> 200,
                             schedule |-> sid, critical_path |-> k,
                             created |-> created]
    /\ UNCHANGED <<ledgerVars, today, estVars, commitVars, schedActive,
                   schedName, activities, nextActivityId, inflight>>

\* CriticalPathViewSet destroy (ModelViewSet).
\* CriticalPathActivity.critical_path is on_delete=CASCADE.
CriticalPathDelete(u, k) ==
    /\ IsAuthenticated(u)
    /\ IF k \notin DOMAIN criticalPaths
          \/ ~SeesSchedule(u, criticalPaths[k].schedule)
       THEN /\ resp' = [op |-> "path_delete", code |-> 404, id |-> k]
            /\ UNCHANGED pathVars
       ELSE /\ criticalPaths' = Without(criticalPaths, k)
            /\ criticalActivities' =
                  WithoutCriticalRows(criticalActivities, k)
            /\ UNCHANGED nextCriticalPathId
            /\ resp' = [op |-> "path_delete", code |-> 204, id |-> k]
    /\ UNCHANGED <<ledgerVars, today, estVars, commitVars, schedActive,
                   schedName, activities, nextActivityId, inflight>>

----------------
(* Python numbers.  A DecimalField value read from the store is a          *)
(* decimal.Decimal, int / int is a float, and Decimal * float and          *)
(* Decimal + float raise TypeError.  A number is a fraction n/d with the   *)
(* type that Python gives it.                                              *)

PyInt(n) == [t |-> "int", n |-> n, d |-> 1]
PyDecimal(n) == [t |-> "Decimal", n |-> n, d |-> 1]
PyTrueDiv(a, b) == [t |-> "float", n |-> a, d |-> b]
PyTypeError == [t |-> "TypeError", n |-> 0, d |-> 1]

PyResultType(a, b) ==
    IF "float" \in {a.t, b.t} THEN "float"
    ELSE IF "Decimal" \in {a.t, b.t} THEN "Decimal"
    ELSE "int"

PyUnsupported(a, b) ==
    \/ "TypeError" \in {a.t, b.t}
    \/ {a.t, b.t} = {"Decimal", "float"}

PyMul(a, b) ==
    IF PyUnsupported(a, b) THEN PyTypeError
    ELSE [t |-> PyResultType(a, b), n |-> a.n * b.n, d |-> a.d * b.d]

PyAdd(a, b) ==
    IF PyUnsupported(a, b) THEN PyTypeError
    ELSE [t |-> PyResultType(a, b), n |-> a.n * b.d + b.n * a.d,
          d |-> a.d * b.d]

----------------------------------------------------------------------------
(* Schedule Allocator: the programmed volumes of PhysicalProgressSummaryView *)

\* concepts_query: the active concepts that pass the request's filters
ConceptsQuery(q) ==
    {c \in Concepts :
        /\ ConceptActive(c)
        /\ q.concept # NoId => c = q.concept
        /\ q.work_item # NoId => ConceptWorkItem(c) = q.work_item
        /\ q.catalog # NoId => ConceptCatalog(c) = q.catalog}

\* Activity.objects.filter(schedule=s, start_date__lte=pe, end_date__gte=ps)
OverlappingActivities(s, ps, pe) ==
    {a \in Activities :
        ActivitySchedule(a) = s /\ ActivityStart(a) <= pe /\ ActivityEnd(a) >= ps}

DaysInPeriod(a, ps, pe) ==
    Min(ActivityEnd(a), pe) - Max(ActivityStart(a), ps) + 1
TotalActivityDays(a) == ActivityEnd(a) - ActivityStart(a) + 1

\* percentage_in_period = days_in_period / total_activity_days, or the int 0
PercentageInPeriod(a, ps, pe) ==
    IF TotalActivityDays(a) > 0
    THEN PyTrueDiv(DaysInPeriod(a, ps, pe), TotalActivityDays(a))
    ELSE PyInt(0)

\* ac.concept.quantity * percentage_in_period
ProratedVolume(c, a, ps, pe) ==
    PyMul(PyDecimal(ConceptQuantity(c)), PercentageInPeriod(a, ps, pe))

\* programmed_volumes[concept_id] (+)= v
AddVolume(pv, c, v) ==
    IF c \in DOMAIN pv THEN [pv EXCEPT ![c] = PyAdd(@, v)]
    ELSE pv @@ (c :> v)

\* The activity loop of steps 1 and 2 over the (activity, concept) pairs of
\* one schedule that pass the concept filter
RECURSIVE AddProrated(_, _, _, _)
AddProrated(pv, pairs, ps, pe) ==
    IF pairs = {} THEN pv
    ELSE LET x == CHOOSE y \in pairs : TRUE
         IN AddProrated(AddVolume(pv, x[2], ProratedVolume(x[2], x[1], ps, pe)),
                        pairs \ {x}, ps, pe)

ScheduleVolumes(pv, s, q, ps, pe) ==
    AddProrated(pv,
        {x \in OverlappingActivities(s, ps, pe) \X ConceptsQuery(q) :
            x[2] \in ActivityConcepts(x[1])},
        ps, pe)

Raised(pv) == \E c \in DOMAIN pv : pv[c].t = "TypeError"

NoProgram == [volumes |-> <<>>, found |-> FALSE, source |-> "None",
              raised |-> FALSE, steps |-> {}]

\* 1. the schedule of the request
Step1(q, ps, pe) ==
    IF q.schedule = NoId THEN NoProgram
    ELSE IF q.schedule \notin Schedules
    THEN [NoProgram EXCEPT !.steps = {1}]
    ELSE LET pv == ScheduleVolumes(<<>>, q.schedule, q, ps, pe)
         IN [volumes |-> pv, found |-> DOMAIN pv # {},
             source |-> ScheduleSource(q.schedule), raised |-> Raised(pv),
             steps |-> {1}]

\* "if not programmed_found and not schedule_id"
Step2Guard(q, r) == ~r.found /\ q.schedule = NoId

\* 2. the active schedules of the constructions of the filtered concepts,
\* in the order the store returns them, until one fills the mapping
RECURSIVE Step2Loop(_, _, _, _, _)
Step2Loop(r, seq, q, ps, pe) ==
    IF seq = <<>> \/ r.raised THEN r
    ELSE LET s == Head(seq)
         IN IF OverlappingActivities(s, ps, pe) = {}
            THEN Step2Loop(r, Tail(seq), q, ps, pe)
            ELSE LET pv == ScheduleVolumes(r.volumes, s, q, ps, pe)
                     r2 == [r EXCEPT !.volumes = pv,
                                     !.source = ScheduleSource(s),
                                     !.raised = Raised(pv),
                                     !.found = DOMAIN pv # {}]
                 IN IF r2.found THEN r2
                    ELSE Step2Loop(r2, Tail(seq), q, ps, pe)

Step2(r, q, ps, pe) ==
    IF r.raised \/ ~Step2Guard(q, r) THEN r
    ELSE Step2Loop([r EXCEPT !.steps = @ \cup {2}],
            SortedIds({s \in Schedules :
                /\ schedActive[s]
                /\ ScheduleConstruction(s) \in
                      {ConceptConstruction(c) : c \in ConceptsQuery(q)}}),
            q, ps, pe)

\* The planned estimations that overlap the period, of any construction
PlannedOfAnyConstruction(q, ps, pe) ==
    {e \in DOMAIN estimations :
        /\ estimations[e].is_planned
        /\ estimations[e].period_start <= pe
        /\ estimations[e].period_end >= ps}

\* The planned estimations of step 3, ordered by Meta.ordering -period_start
PlannedEstimations(q, ps, pe) ==
    {e \in DOMAIN estimations :
        /\ estimations[e].is_planned
        /\ estimations[e].period_start <= pe
        /\ estimations[e].period_end >= ps
        /\ q.catalog # NoId =>
              estimations[e].construction \in
                  {ConceptConstruction(c) : c \in ConceptsQuery(q)}}

RECURSIVE ByPeriodStartDesc(_)
ByPeriodStartDesc(S) ==
    IF S = {} THEN <<>>
    ELSE LET m == CHOOSE x \in S : \A y \in S :
                     \/ estimations[x].period_start > estimations[y].period_start
                     \/ /\ estimations[x].period_start = estimations[y].period_start
                        /\ x <= y
         IN <<m>> \o ByPeriodStartDesc(S \ {m})

\* EstimationDetail.objects.filter(estimation=e) with the request's filters
FilteredDetails(e, q) ==
    {i \in DOMAIN details :
        /\ details[i].estimation = e
        /\ q.concept # NoId => details[i].concept = q.concept
        /\ q.work_item # NoId => ConceptWorkItem(details[i].concept) = q.work_item
        /\ q.catalog # NoId => ConceptCatalog(details[i].concept) = q.catalog}

\* programmed_volumes[concept_id] (+)= detail.volume, for the details whose
\* concept is in concepts_query
RECURSIVE AddDetails(_, _, _)
AddDetails(pv, ids, q) ==
    IF ids = {} THEN pv
    ELSE LET i == CHOOSE j \in ids : TRUE
             c == details[i].concept
         IN AddDetails(
               IF c \in ConceptsQuery(q)
               THEN AddVolume(pv, c, PyDecimal(details[i].volume)) ELSE pv,
               ids \ {i}, q)

\* 3. the planned estimations, until one fills the mapping
RECURSIVE Step3Loop(_, _, _)
Step3Loop(r, seq, q) ==
    IF seq = <<>> THEN r
    ELSE LET e == Head(seq)
             ids == FilteredDetails(e, q)
         IN IF ids = {} THEN Step3Loop(r, Tail(seq), q)
            ELSE LET pv == AddDetails(r.volumes, ids, q)
                     r2 == [r EXCEPT !.volumes = pv,
                                     !.source = EstimationSource(e),
                                     !.found = DOMAIN pv # {}]
                 IN IF r2.found THEN r2 ELSE Step3Loop(r2, Tail(seq), q)

Step3(r, q, ps, pe) ==
    IF r.raised \/ r.found THEN r
    ELSE Step3Loop([r EXCEPT !.steps = @ \cup {3}],
                   ByPeriodStartDesc(PlannedEstimations(q, ps, pe)), q)

\* programmed_volumes, programmed_found and program_source of the handler
Allocate(q, ps, pe) == Step3(Step2(Step1(q, ps, pe), q, ps, pe), q, ps, pe)

----------------------------------------------------------------------------
(* Planned estimations imported from a schedule:                           *)
(* EstimationPlanningViewSet.import_from_schedule                          *)

Constructions == {1, 2}

\* request.data.get('period_start') and ('period_end') are values of the
\* request body, a str; Activity.start_date and end_date are datetime.date
PyStr(day) == [t |-> "str", n |-> day, d |-> 1]
PyDate(day) == [t |-> "date", n |-> day, d |-> 1]

\* max(a, b) and min(a, b): '>' and '<' between a str and a date raise
\* TypeError
PyMax(a, b) ==
    IF a.t # b.t THEN PyTypeError ELSE IF b.n > a.n THEN b ELSE a
PyMin(a, b) ==
    IF a.t # b.t THEN PyTypeError ELSE IF b.n < a.n THEN b ELSE a

\* Activity.Meta.ordering = ['start_date', 'end_date']
RECURSIVE ByStartEnd(_)
ByStartEnd(S) ==
    IF S = {} THEN <<>>
    ELSE LET a == CHOOSE x \in S : \A y \in S \ {x} :
                     \/ ActivityStart(x) < ActivityStart(y)
                     \/ /\ ActivityStart(x) = ActivityStart(y)
                        /\ \/ ActivityEnd(x) < ActivityEnd(y)
                           \/ ActivityEnd(x) = ActivityEnd(y) /\ x < y
         IN <<a>> \o ByStartEnd(S \ {a})

\* activity_start, activity_end, days_in_period and percentage_in_period
\* of one pass of the activity loop
ImportPercentage(a, ps, pe) ==
    LET activity_start == PyMax(PyDate(ActivityStart(a)), ps)
        activity_end   == PyMin(PyDate(ActivityEnd(a)), pe)
    IN IF "TypeError" \in {activity_start.t, activity_end.t}
       THEN PyTypeError
       ELSE LET days_in_period == activity_end.n - activity_start.n + 1
            IN IF days_in_period >= TotalActivityDays(a)
               THEN PyTrueDiv(1, 1)
               ELSE PyTrueDiv(days_in_period, TotalActivityDays(a))

\* The concept loop of one activity: planned_volume, amount and
\* EstimationDetail.objects.create, which the unique_together constraint
\* of (estimation, concept) refuses with IntegrityError.  A DecimalField
\* keeps two decimal places; the model's volumes and amounts are whole.
RECURSIVE ImportConcepts(_, _, _, _)
ImportConcepts(out, cs, pct, e) ==
    IF cs = <<>> \/ out.error # "none" THEN out
    ELSE LET c == Head(cs)
             planned_volume == PyMul(PyDecimal(ConceptQuantity(c)), pct)
             amount == PyMul(planned_volume, PyDecimal(ConceptUnitPrice(c)))
         IN IF amount.t = "TypeError"
            THEN [out EXCEPT !.error = "TypeError"]
            ELSE IF \E i \in DOMAIN out.details :
                       /\ out.details[i].estimation = e
                       /\ out.details[i].concept = c
            THEN [out EXCEPT !.error = "IntegrityError"]
            ELSE ImportConcepts(
                    [out EXCEPT
                        !.details = @ @@ (out.next :>
                            [estimation |-> e, concept |-> c,
                             volume |-> RoundDiv(planned_volume.n,
                                                 planned_volume.d),
                             amount |-> RoundDiv(amount.n, amount.d)]),
                        !.next = @ + 1,
                        !.created = @ + 1],
                    Tail(cs), pct, e)

\* The activity loop: for activity in activities
RECURSIVE ImportActivities(_, _, _, _, _)
ImportActivities(out, acts, e, ps, pe) ==
    IF acts = <<>> \/ out.error # "none" THEN out
    ELSE LET pct == ImportPercentage(Head(acts), ps, pe)
         IN IF pct.t = "TypeError"
            THEN [out EXCEPT !.error = "TypeError"]
            ELSE ImportActivities(
                    ImportConcepts(out,
                        SortedIds(ActivityConcepts(Head(acts))), pct, e),
                    Tail(acts), e, ps, pe)

\* Estimation.objects.create(..., is_planned=True, based_on_schedule=True,
\* status='DRAFT')
ImportedEstimation(p) ==
    [total_amount |-> 0,
     is_planned   |-> TRUE,
     status       |-> "DRAFT",
     period_start |-> p.period_start,
     period_end   |-> p.period_end,
     construction |-> p.construction_id]

\* What an import answered 500 leaves in the store: the handler opens no
\* transaction, so the rows written before the exception stay, unless the
\* deployment wraps every request in one (ATOMIC_REQUESTS), which undoes
\* them.  The settings module is not part of the source tree.
ImportAborted(created, out) ==
    \/ /\ estimations' = created
       /\ details' = out.details
       /\ nextDetailId' = out.next
    \/ UNCHANGED estVars

\* POST import_from_schedule
ImportFromSchedule(u, p) ==
    /\ IF \/ Absent \in {p.construction_id, p.schedule_id,
                         p.period_start, p.period_end}
          \/ p.name = ""
       THEN /\ resp' = [op |-> "import", code |-> 400, id |-> NoId, req |-> p]
            /\ UNCHANGED estVars
       ELSE IF \/ p.construction_id \notin Constructions
               \/ p.schedule_id \notin Schedules
       THEN /\ resp' = [op |-> "import", code |-> 404, id |-> NoId, req |-> p]
            /\ UNCHANGED estVars
       ELSE LET e == Cardinality(DOMAIN estimations) + 1
                created == estimations @@ (e :> ImportedEstimation(p))
                out == ImportActivities(
                          [details |-> details, next |-> nextDetailId,
                           created |-> 0, error |-> "none"],
                          ByStartEnd(OverlappingActivities(p.schedule_id,
                              p.period_start, p.period_end)),
                          e, PyStr(p.period_start), PyStr(p.period_end))
            IN IF out.error # "none"
               THEN /\ resp' = [op |-> "import", code |-> 500, id |-> NoId,
                                req |-> p]
                    /\ ImportAborted(created, out)
               ELSE /\ details' = out.details
                    /\ nextDetailId' = out.next
                    /\ estimations' = UpdateTotal(created, out.details, e)
                    /\ resp' = [op |-> "import", code |-> 201, id |-> e,
                                req |-> p, details_created |-> out.created,
                                total_amount |->
                                    CalculateTotal(out.details, e)]
    /\ UNCHANGED <<ledgerVars, today, commitVars, cronoVars, inflight>>

----------------------------------------------------------------------------
(* Reconciliation Engine: PhysicalProgressSummaryView.get *)

\* The model calendar: every month has MonthDays days
MonthDays == 30
MonthStart(d) == ((d - 1) \div MonthDays) * MonthDays + 1
MonthEnd(d) == MonthStart(d) + MonthDays - 1

\* "if not period_start or not period_end": the month of today
PeriodStart(q) ==
    IF q.period_start = Absent \/ q.period_end = Absent
    THEN MonthStart(today) ELSE q.period_start
PeriodEnd(q) ==
    IF q.period_start = Absent \/ q.period_end = Absent
    THEN MonthEnd(today) ELSE q.period_end

ExecutedVolumeAnyStatus(c, ps, pe) ==
    LET rows == {i \in DOMAIN physical :
                    /\ physical[i].concept = c
                    /\ physical[i].date >= ps
                    /\ physical[i].date <= pe}
    IN SumFn([i \in DOMAIN physical |-> physical[i].volume], rows)

\* Physical.objects.filter(concept=c, status='APPROVED', date__gte=ps,
\* date__lte=pe).aggregate(total=Sum('volume'))['total'] or 0
ExecutedVolume(c, ps, pe) ==
    LET rows == {i \in DOMAIN physical :
                    /\ physical[i].concept = c
                    /\ physical[i].status = "APPROVED"
                    /\ physical[i].date >= ps
                    /\ physical[i].date <= pe}
    IN SumFn([i \in DOMAIN physical |-> physical[i].volume], rows)

\* executed_volumes: only the concepts whose sum is > 0 get a key
ExecutedVolumes(q, ps, pe) ==
    LET keys == {c \in ConceptsQuery(q) : ExecutedVolume(c, ps, pe) > 0}
    IN [c \in keys |-> ExecutedVolume(c, ps, pe)]

\* approval_info[concept_id]: the latest history row with new_status
\* APPROVED of a record of the concept dated in the period
NoApproval == [submission_date |-> Null, approval_date |-> Null,
               days_to_approve |-> Null]
ApprovalInfo(c, ps, pe) ==
    LET idx == {k \in 1..Len(history) :
                   /\ history[k].new_status = "APPROVED"
                   /\ history[k].physical \in DOMAIN physical
                   /\ physical[history[k].physical].concept = c
                   /\ physical[history[k].physical].date >= ps
                   /\ physical[history[k].physical].date <= pe}
    IN IF idx = {} THEN NoApproval
       ELSE LET k == CHOOSE x \in idx : \A y \in idx : y <= x
                row == history[k]
            IN [submission_date |-> physical[row.physical].date,
                approval_date   |-> row.changed_at,
                days_to_approve |-> row.changed_at - physical[row.physical].date]

Last(seq) == seq[Len(seq)]

\* The value of the name `concept` after "for concept in concepts_query":
\* the loop variable rebinds the request parameter
ConceptAfterExecutedLoop(q) ==
    IF ConceptsQuery(q) = {} THEN q.concept
    ELSE Last(SortedIds(ConceptsQuery(q)))

\* The filtered concepts that have a key in either mapping, and nothing
\* else
RelevantConcepts(q, pv, ev) == ConceptsQuery(q) \cap (DOMAIN ev \cup DOMAIN pv)

\* filtered_concepts: "if relevant_concept_ids or not (concept or work_item
\* or catalog)"
FilteredConcepts(q, pv, ev) ==
    LET relevant == DOMAIN ev \cup DOMAIN pv
    IN IF relevant # {}
          \/ ~(\/ ConceptAfterExecutedLoop(q) # NoId
               \/ q.work_item # NoId
               \/ q.catalog # NoId)
       THEN ConceptsQuery(q) \cap relevant
       ELSE ConceptsQuery(q)

\* filtered_concepts[start_index:end_index], in Concept's ordering by id
Paginated(q, fc) ==
    LET all == SortedIds(fc)
        start == (q.page - 1) * q.page_size
    IN SubSeq(all, start + 1, Min(start + q.page_size, Len(all)))

\* The value of the name `concept` after "for concept in paginated_concepts"
ConceptAfterDetailsLoop(q, page) ==
    IF page = <<>> THEN ConceptAfterExecutedLoop(q) ELSE Last(page)

\* One row of details
DetailRow(c, pv, ev, ps, pe) ==
    LET programmed == IF c \in DOMAIN pv THEN pv[c] ELSE PyInt(0)
        executed   == IF c \in DOMAIN ev THEN ev[c] ELSE 0
    IN [id                |-> c,
        programmed_volume |-> programmed,
        programmed_amount |-> PyMul(programmed, PyDecimal(ConceptUnitPrice(c))),
        executed_volume   |-> executed,
        executed_amount   |-> executed * ConceptUnitPrice(c),
        approval_info     |-> IF c \in DOMAIN ev THEN ApprovalInfo(c, ps, pe)
                              ELSE NoApproval,
        completed         |-> /\ programmed.n > 0
                              /\ executed * programmed.d >= programmed.n]

\* week_progress of one bucket: the APPROVED records dated in it that pass
\* "if concept", "if work_item" and "if catalog"
WeekRows(q, cw, ws, we) ==
    {i \in DOMAIN physical :
        /\ physical[i].status = "APPROVED"
        /\ physical[i].date >= ws
        /\ physical[i].date <= we
        /\ cw # NoId => physical[i].concept = cw
        /\ q.work_item # NoId => ConceptWorkItem(physical[i].concept) = q.work_item
        /\ q.catalog # NoId => ConceptCatalog(physical[i].concept) = q.catalog}

WeekDays == 7
\* strftime('%d/%m') of the first day of a bucket: the day within the
\* year, which the model calendar cuts to two months
YearDays == 60
WeekName(d) == (d - 1) % YearDays

\* weeks[week_name] = {...}: a dict, a repeated key overwrites its bucket
PutWeek(weeks, b) ==
    IF \E k \in 1..Len(weeks) : weeks[k].name = b.name
    THEN [k \in 1..Len(weeks) |->
             IF weeks[k].name = b.name THEN b ELSE weeks[k]]
    ELSE Append(weeks, b)

\* "while weekly_start <= period_end"
RECURSIVE WeekLoop(_, _, _, _, _)
WeekLoop(weeks, q, cw, ws, pe) ==
    IF ws > pe THEN weeks
    ELSE LET we == Min(ws + WeekDays - 1, pe)
             rows == WeekRows(q, cw, ws, we)
             b == [name |-> WeekName(ws), start_date |-> ws, end_date |-> we,
                   executed_volume |->
                       SumFn([i \in DOMAIN physical |-> physical[i].volume], rows),
                   executed_amount |->
                       SumFn([i \in DOMAIN physical |->
                                 physical[i].volume
                                   * ConceptUnitPrice(physical[i].concept)], rows)]
             \* weeks and weekly_start after this pass
             after == [weeks |-> PutWeek(weeks, b), weekly_start |-> we + 1]
         IN WeekLoop(after.weeks, q, cw, after.weekly_start, pe)

RECURSIVE SumRows(_, _)
SumRows(rows, field) ==
    IF rows = <<>> THEN 0 ELSE Head(rows)[field] + SumRows(Tail(rows), field)

RECURSIVE SumProgrammed(_)
SumProgrammed(rows) ==
    IF rows = <<>> THEN PyInt(0)
    ELSE PyAdd(Head(rows).programmed_amount, SumProgrammed(Tail(rows)))

ProgramStatusBySource(prog) ==
    IF prog.source # "None" THEN "program_found" ELSE "no_program"

\* "if not programmed_found: ... 'no_program' else: ... 'program_found'"
ProgramStatus(prog) ==
    IF prog.found THEN "program_found" ELSE "no_program"

\* response_data['program_source'] is set only in the else branch
ProgramSource(prog) ==
    IF prog.found THEN prog.source ELSE "absent"

\* The response of the handler: 500 when an exception escapes it
SummaryResponse(q) ==
    LET ps == PeriodStart(q)
        pe == PeriodEnd(q)
        prog == Allocate(q, ps, pe)
    IN IF prog.raised
       THEN [op |-> "summary", code |-> 500, req |-> q]
       ELSE
       LET pv == prog.volumes
           ev == ExecutedVolumes(q, ps, pe)
           fc == FilteredConcepts(q, pv, ev)
           page == Paginated(q, fc)
           rows == [k \in 1..Len(page) |-> DetailRow(page[k], pv, ev, ps, pe)]
           programmedTotal == SumProgrammed(rows)
           executedTotal == SumRows(rows, "executed_amount")
           \* period_percentage = (total_executed_amount /
           \* total_programmed_amount) * 100, or the int 0
           percentage ==
               IF programmedTotal.n > 0
               THEN [t |-> programmedTotal.t,
                     n |-> executedTotal * 100 * programmedTotal.d,
                     d |-> programmedTotal.n]
               ELSE PyInt(0)
       IN [op |-> "summary", code |-> 200, req |-> q,
           period |-> [start_date |-> ps, end_date |-> pe],
           steps |-> prog.steps,
           programmed_volumes |-> pv,
           summary |->
             [total_programmed_amount |-> programmedTotal,
              total_executed_amount   |-> executedTotal,
              period_percentage       |-> percentage,
              concepts_count          |-> Cardinality(fc),
              completed_concepts      |->
                  Cardinality({k \in 1..Len(rows) : rows[k].completed})],
           details |-> rows,
           weeks |-> WeekLoop(<<>>, q, ConceptAfterDetailsLoop(q, page), ps, pe),
           pagination |->
             [total_items |-> Cardinality(fc), page |-> q.page,
              page_size |-> q.page_size,
              total_pages |-> (Cardinality(fc) + q.page_size - 1) \div q.page_size],
           program_status |-> ProgramStatus(prog),
           program_source |-> ProgramSource(prog)]

Summary(q) ==
    /\ resp' = SummaryResponse(q)
    /\ UNCHANGED <<ledgerVars, today, estVars, commitVars, cronoVars, inflight>>

----------------------------------------------------------------------------
(* The dashboard: ProgressDashboardView.get.  It takes the catalog,        *)
(* work_item, schedule and period parameters, resolves the program with    *)
(* steps 1 and 2 of the allocator and has no step 3.                       *)

\* physical_advances: Physical.objects.filter(concept_id__in=concept_ids,
\* status='APPROVED').values('concept_id').annotate(Sum('volume'))
DashboardPhysical(c) ==
    SumFn([i \in DOMAIN physical |-> physical[i].volume],
          {i \in DOMAIN physical :
              physical[i].concept = c /\ physical[i].status = "APPROVED"})

\* The same sum over the records dated in [ps, pe] only
PhysicalOfPeriod(c, ps, pe) == ExecutedVolume(c, ps, pe)

\* financial_advances: EstimationDetail.objects.filter(
\* concept_id__in=concept_ids, estimation__status__in=['APPROVED', 'PAID'])
DashboardFinancial(c) ==
    {i \in DOMAIN details :
        /\ details[i].concept = c
        /\ estimations[details[i].estimation].status \in {"APPROVED", "PAID"}}

\* "while current_date <= period_end and month_count < 12"
DashboardMonths == 12

\* The monthly loop multiplies Decimal by float for every activity of an
\* active schedule with total_activity_days > 0 and a filtered concept that
\* overlaps one of its month windows; it runs only when a program was found
MonthLoopRaises(q, ps, pe) ==
    \E a \in Activities :
        /\ schedActive[ActivitySchedule(a)]
        /\ ActivityStart(a)
             <= Min(pe, MonthStart(ps) + DashboardMonths * MonthDays - 1)
        /\ ActivityEnd(a) >= ps
        /\ TotalActivityDays(a) > 0
        /\ ActivityConcepts(a) \cap ConceptsQuery(q) # {}

\* The response codes the handler can end in.  500: TypeError in a
\* proration, or NameError on programmed_percentage, which is assigned only
\* inside the monthly loop and so is unbound for an empty period.  With a
\* schedule parameter and a program found, the monthly filter
\* schedule__is_active=Q(schedule_id=...) is accepted by some releases of
\* the framework and refused by others.
DashboardCodes(q, prog, ps, pe) ==
    IF prog.raised \/ ps > pe THEN {500}
    ELSE IF ~prog.found THEN {200}
    ELSE IF q.schedule # NoId THEN {200, 500}
    ELSE IF MonthLoopRaises(q, ps, pe) THEN {500}
    ELSE {200}

\* The summary and details of a 200 response
DashboardBody(q, prog) ==
    LET rows ==
          [c \in ConceptsQuery(q) |->
             LET programmed == IF c \in DOMAIN prog.volumes
                               THEN prog.volumes[c] ELSE PyInt(0)
             IN [programmed_volume |-> programmed,
                 programmed_amount |->
                     PyMul(programmed, PyDecimal(ConceptUnitPrice(c))),
                 physical_volume |-> DashboardPhysical(c),
                 physical_amount |->
                     DashboardPhysical(c) * ConceptUnitPrice(c),
                 financial_volume |->
                     SumFn([i \in DOMAIN details |-> details[i].volume],
                           DashboardFinancial(c)),
                 financial_amount |->
                     SumFn([i \in DOMAIN details |-> details[i].amount],
                           DashboardFinancial(c))]]
    IN [details |-> rows,
        summary |->
          [physical_amount |->
               SumFn([c \in DOMAIN rows |-> rows[c].physical_amount],
                     DOMAIN rows),
           financial_amount |->
               SumFn([c \in DOMAIN rows |-> rows[c].financial_amount],
                     DOMAIN rows)],
        program_status |-> ProgramStatus(prog)]

Dashboard(q) ==
    /\ LET ps == PeriodStart(q)
           pe == PeriodEnd(q)
           prog == Step2(Step1(q, ps, pe), q, ps, pe)
       IN \E code \in DashboardCodes(q, prog, ps, pe) :
             resp' = IF code = 500
                     THEN [op |-> "dashboard", code |-> 500, req |-> q]
                     ELSE [op |-> "dashboard", code |-> 200, req |-> q,
                           period |-> [start_date |-> ps, end_date |-> pe],
                           body |-> DashboardBody(q, prog)]
    /\ UNCHANGED <<ledgerVars, today, estVars, commitVars, cronoVars, inflight>>

----------------------------------------------------------------------------
(* Approval analytics *)

\* The history rows with new_status = 'APPROVED', whatever came before
ApprovalsFromAnyStatus ==
    {k \in 1..Len(history) : history[k].new_status = "APPROVED"}

\* PhysicalStatusHistory.objects.filter(new_status='APPROVED',
\* previous_status='PENDING'), as positions of history
Approvals ==
    {k \in 1..Len(history) :
        /\ history[k].new_status = "APPROVED"
        /\ history[k].previous_status = "PENDING"}

\* days_taken=Extract(F('changed_at') - F('physical__date'), 'day'): the
\* whole days of the interval from the start of the record's date to
\* changed_at
DaysTaken(k) == history[k].changed_at - physical[history[k].physical].date

\* approvals.aggregate(avg=Avg('days_taken'))['avg'] or 0: None without
\* rows and 0.0 both give the int 0
AvgDays(rows) ==
    LET total == SumFn([k \in rows |-> DaysTaken(k)], rows)
    IN IF rows = {} \/ total = 0 THEN PyInt(0)
       ELSE PyTrueDiv(total, Cardinality(rows))

\* ApprovalAnalyticsView.get
ApprovalAnalytics ==
    /\ resp' = [op |-> "analytics", code |-> 200,
                avg_approval_time |-> AvgDays(Approvals),
                total_approvals |-> Cardinality(Approvals)]
    /\ UNCHANGED <<ledgerVars, today, estVars, commitVars, cronoVars,
                   inflight>>

----------------------------------------------------------------------------
(* Initial state: an empty store on day 1 *)

InitLedger ==
    /\ physical = <<>>
    /\ history = <<>>
    /\ nextPhysicalId = 1
    /\ today = 1

\* Three estimations as EstimationListCreateView leaves them: no detail,
\* total_amount at its default 0
InitEstimations ==
    /\ estimations =
          [e \in Estimations |->
             [total_amount |-> 0,
              is_planned   |-> e \in {1, 2},
              status       |-> IF e = 3 THEN "APPROVED" ELSE "DRAFT",
              period_start |-> CASE e = 1 -> 1 [] e = 2 -> 4 [] OTHER -> 1,
              period_end   |-> CASE e = 1 -> 5 [] e = 2 -> 9 [] OTHER -> 9,
              construction |-> IF e = 2 THEN 2 ELSE 1]]
    /\ details = <<>>
    /\ nextDetailId = 1

InitCommitments ==
    /\ commitments = <<>>
    /\ nextCommitmentId = 1

\* Two schedules of construction 1
InitSchedules ==
    /\ schedActive = [s \in {1, 2} |-> TRUE]
    /\ schedName = [s \in {1, 2} |->
                       IF s = 1 THEN "Programa 1" ELSE "Programa 2"]

\* The activity rows the allocator reads.  ActivitySerializer.create
\* stores what it is given (Activity.clean is not called), so activity 5
\* ends before it starts.
InitActivities ==
    /\ activities =
          [a \in 1..5 |->
             [schedule |-> IF a \in {1, 2} THEN 1 ELSE 2,
              start_date |->
                 CASE a = 1 -> 11 [] a = 2 -> 13 [] a = 3 -> 16
                   [] a = 4 -> 12 [] OTHER -> 23,
              end_date |->
                 CASE a = 1 -> 20 [] a = 2 -> 14 [] a = 3 -> 19
                   [] a = 4 -> 12 [] OTHER -> 22,
              progress_percentage |-> 0,
              concepts |->
                 CASE a = 1 -> {1} [] a = 2 -> {1, 2} [] a = 3 -> {2}
                   [] a = 4 -> {3} [] OTHER -> {2}]]
    /\ nextActivityId = 6

InitPaths ==
    /\ criticalPaths = <<>>
    /\ criticalActivities = {}
    /\ nextCriticalPathId = 1

InitCommon ==
    /\ InitSchedules
    /\ InitPaths
    /\ inflight = <<>>
    /\ resp = [op |-> "none", code |-> 0]

(* Requests the callers of the ledger send *)
CreatePayloads ==
    [concept : {1, 3}, volume : {0, 2},
     status : {"ABSENT", "APPROVED"}, partial : {FALSE}]
UpdatePayloads ==
    [concept : {Absent}, volume : {Absent},
     status : PhysicalStatuses \cup {"ABSENT", "BOGUS"}, partial : {TRUE}]
    \cup [concept : {3}, volume : {0, 2}, status : {"ABSENT", "APPROVED"},
          partial : {FALSE}]
    \cup [concept : {Absent}, volume : {Absent}, status : {"APPROVED"},
          partial : {FALSE}]

LedgerNext ==
    \/ \E u \in Users, p \in CreatePayloads : PhysicalCreate(u, p)
    \/ \E u \in Users, i \in 1..MaxPhysical, p \in UpdatePayloads :
          PhysicalUpdate(u, i, p)
    \/ \E u \in Users, i \in 1..MaxPhysical : PhysicalDelete(u, i)

Init ==
    /\ InitLedger /\ InitEstimations /\ InitCommitments /\ InitCommon
    /\ InitActivities

(* Requests the callers of the estimation-item endpoints send *)
ItemCreatePayloads ==
    [estimation : {1, 2}, concept : {1, 2}, volume : {2},
     amount : {0, 200, 300}, partial : {FALSE}]
ItemUpdatePayloads ==
    [estimation : {Absent, 1, 2}, concept : {Absent, 2}, volume : {Absent},
     amount : {Absent, 0, 300}, partial : {TRUE}]
    \cup [estimation : {1}, concept : {1}, volume : {Absent, 2},
          amount : {200}, partial : {FALSE}]
ItemUsers == {"staff", "resident"}

EstimationNext ==
    \/ \E u \in ItemUsers, p \in ItemCreatePayloads :
          EstimationItemCreate(u, p)
    \/ \E u \in ItemUsers, i \in 1..MaxDetails, p \in ItemUpdatePayloads :
          EstimationItemUpdate(u, i, p)
    \/ \E u \in ItemUsers, i \in 1..MaxDetails : EstimationItemDelete(u, i)

(* Requests the callers of the commitment-tracking endpoints send *)
CommitmentCreatePayloads ==
    [estimation_detail : {1}, planned_volume : {0, 1, 300, 5000},
     actual_volume : {Absent, Null, 0, 4000}, partial : {FALSE}]
CommitmentUpdatePayloads ==
    [estimation_detail : {Absent}, planned_volume : {Absent, 0, 300, 5000},
     actual_volume : {Absent, Null, 100, 4000}, partial : {TRUE}]
    \cup [estimation_detail : {1, 2}, planned_volume : {5000},
          actual_volume : {Absent, 4000}, partial : {FALSE}]

CommitmentNext ==
    \/ \E p \in [estimation : {1}, concept : {1}, volume : {2},
                  amount : {300}, partial : {FALSE}] :
          EstimationItemCreate("staff", p)
    \/ EstimationItemDelete("staff", 1)
    \/ \E p \in CommitmentCreatePayloads : CommitmentCreate(p)
    \/ \E k \in 1..MaxCommitments, p \in CommitmentUpdatePayloads :
          CommitmentUpdate(k, p)
    \/ \E k \in 1..MaxCommitments : CommitmentDelete(k)

SpecLedger == Init /\ [][LedgerNext]_vars
SpecEstimation == Init /\ [][EstimationNext]_vars
SpecCommitment == Init /\ [][CommitmentNext]_vars

(* Requests the callers of the summary send *)
SummaryRequest(c, w, k, s, period, paging) ==
    [concept |-> c, work_item |-> w, catalog |-> k, schedule |-> s,
     period_start |-> period[1], period_end |-> period[2],
     page |-> paging[1], page_size |-> paging[2]]

DefaultPageSize == 50

ExecRequests ==
    {SummaryRequest(NoId, NoId, NoId, NoId, <<1, MaxDay>>, <<1, DefaultPageSize>>),
     SummaryRequest(NoId, NoId, NoId, NoId, <<1, 7>>, <<1, DefaultPageSize>>),
     SummaryRequest(2, NoId, NoId, NoId, <<8, MaxDay>>, <<1, DefaultPageSize>>),
     SummaryRequest(NoId, NoId, NoId, NoId, <<1, MaxDay>>, <<2, 1>>),
     SummaryRequest(NoId, 1, 1, NoId, <<1, MaxDay>>, <<1, DefaultPageSize>>)}

ExecCreatePayloads ==
    {[concept |-> 1, volume |-> 2, status |-> "ABSENT", partial |-> FALSE],
     [concept |-> 1, volume |-> 2, status |-> "APPROVED", partial |-> FALSE],
     [concept |-> 2, volume |-> 3, status |-> "APPROVED", partial |-> FALSE],
     [concept |-> 3, volume |-> 2, status |-> "APPROVED", partial |-> FALSE]}
ExecUpdatePayloads ==
    [concept : {Absent}, volume : {Absent},
     status : {"APPROVED", "REJECTED"}, partial : {TRUE}]

ExecNext ==
    \/ \E p \in ExecCreatePayloads : PhysicalCreate("staff", p)
    \/ \E i \in 1..MaxPhysical, p \in ExecUpdatePayloads :
          PhysicalUpdate("staff", i, p)
    \/ Tick(WeekDays)
    \/ \E q \in ExecRequests : Summary(q)

AllocRequests ==
    {SummaryRequest(c, NoId, NoId, s, period, <<1, DefaultPageSize>>) :
        c \in {NoId, 1, 2}, s \in {NoId, 1, 2, 9},
        period \in {<<11, 15>>, <<5, 15>>, <<5, 9>>, <<21, 25>>}}
    \cup {SummaryRequest(NoId, NoId, 1, NoId, period, <<1, 1>>) :
             period \in {<<5, 9>>, <<Absent, Absent>>, <<Absent, 9>>}}
    \cup {SummaryRequest(NoId, 1, NoId, 2, <<5, 9>>, <<1, 1>>)}

AllocItemPayloads ==
    {[estimation |-> e, concept |-> c, volume |-> IF e = 1 THEN 2 ELSE 5,
      amount |-> 300, partial |-> FALSE] : e \in {1, 2}, c \in Concepts}

AllocNext ==
    \/ \E p \in AllocItemPayloads : EstimationItemCreate("staff", p)
    \/ \E s \in Schedules : ScheduleDeactivate("staff", s)
    \/ \E q \in AllocRequests : Summary(q)

SpecExec == Init /\ [][ExecNext]_vars
SpecAlloc == Init /\ [][AllocNext]_vars

(* The cronograma endpoints: a store without activities or paths *)
InitNoActivities ==
    /\ activities = <<>>
    /\ nextActivityId = 1

InitCrono ==
    /\ InitLedger /\ InitEstimations /\ InitCommitments /\ InitCommon
    /\ InitNoActivities

ActivityPayload(s, sd, ed, pp, cs, partial) ==
    [schedule |-> s, start_date |-> sd, end_date |-> ed,
     progress_percentage |-> pp, concepts |-> cs, partial |-> partial]

(* Requests that build and recompute critical paths *)
PathCreatePayloads ==
    {ActivityPayload(1, d[1], d[2], Absent, {Absent}, FALSE) :
        d \in {<<1, 5>>, <<3, 8>>, <<10, 12>>, <<5, 8>>, <<3, 4>>}}
    \cup {ActivityPayload(2, 1, 5, Absent, {Absent}, FALSE),
          ActivityPayload(9, 1, 5, Absent, {Absent}, FALSE)}
PathUpdatePayloads ==
    {ActivityPayload(Absent, 6, 7, Absent, {Absent}, TRUE),
     ActivityPayload(Absent, Absent, Absent, 1000, {Absent}, TRUE)}

PathNext ==
    \/ \E p \in PathCreatePayloads :
          nextActivityId <= MaxActivities /\ ActivityCreate("staff", p)
    \/ \E a \in 1..MaxActivities, p \in PathUpdatePayloads :
          ActivityUpdate("staff", a, p)
    \/ \E a \in 1..MaxActivities : ActivityDelete("staff", a)
    \/ \E u \in {"staff", "resident"}, sid \in {NoId, 1, 2, 9} :
          CriticalPathCalculate(u, sid)
    \/ \E k \in 1..2 : CriticalPathDelete("staff", k)

SpecPath == InitCrono /\ [][PathNext]_vars

(* Calculations repeated on later days, on schedules that lost their
   activities *)
StampDays == MaxDay \div 2
StampCreatePayloads ==
    {ActivityPayload(1, 1, 5, Absent, {Absent}, FALSE),
     ActivityPayload(1, 3, 8, Absent, {Absent}, FALSE),
     ActivityPayload(2, 1, 5, Absent, {Absent}, FALSE)}

StampNext ==
    \/ \E p \in StampCreatePayloads :
          nextActivityId <= MaxActivities /\ ActivityCreate("staff", p)
    \/ \E a \in 1..MaxActivities : ActivityDelete("staff", a)
    \/ \E u \in {"staff", "resident"}, sid \in {NoId, 1, 2, 9} :
          CriticalPathCalculate(u, sid)
    \/ Tick(StampDays)

SpecStamp == InitCrono /\ [][StampNext]_vars

(* Two estimation-item requests served at the same time *)
RaceCreatePayloads ==
    {[estimation |-> 1, concept |-> c, volume |-> 2, amount |-> a,
      partial |-> FALSE] : c \in {1, 2}, a \in {0, 100, 300}}
RaceUpdatePayloads ==
    {[estimation |-> Absent, concept |-> Absent, volume |-> Absent,
      amount |-> a, partial |-> TRUE] : a \in {0, 200}}

ItemRaceNext ==
    \/ \E r \in Requests, p \in RaceCreatePayloads : ItemCreateSave(r, p)
    \/ \E r \in Requests, i \in 1..MaxDetails, p \in RaceUpdatePayloads :
          ItemUpdateSave(r, i, p)
    \/ \E r \in Requests, i \in 1..MaxDetails : ItemDeleteSave(r, i)
    \/ \E r \in Requests : ItemReadTotal(r)
    \/ \E r \in Requests : ItemSaveTotal(r)

SpecItemRace == Init /\ [][ItemRaceNext]_vars

(* Two updates of Physical records served at the same time *)
RaceStatusPayloads ==
    [concept : {Absent}, volume : {Absent},
     status : PhysicalStatuses \cup {"BOGUS"}, partial : {TRUE}]
    \cup [concept : {Absent}, volume : {3}, status : {"ABSENT"},
          partial : {TRUE}]

StatusRaceNext ==
    \/ \E p \in ExecCreatePayloads : PhysicalCreate("staff", p)
    \/ \E r \in Requests, i \in 1..MaxPhysical, p \in RaceStatusPayloads :
          StatusFetch(r, "staff", i, p)
    \/ \E r \in Requests : StatusReadOld(r)
    \/ \E r \in Requests : StatusSave(r)
    \/ \E r \in Requests : StatusRecord(r)

SpecStatusRace == Init /\ [][StatusRaceNext]_vars

(* Summaries over approved records and planned estimation details *)
PagingRequests ==
    {SummaryRequest(NoId, NoId, NoId, NoId, <<1, MaxDay>>, <<1, DefaultPageSize>>),
     SummaryRequest(NoId, NoId, NoId, NoId, <<1, MaxDay>>, <<1, 1>>),
     SummaryRequest(NoId, NoId, NoId, NoId, <<1, MaxDay>>, <<2, 1>>),
     SummaryRequest(2, NoId, NoId, NoId, <<1, MaxDay>>, <<1, DefaultPageSize>>),
     SummaryRequest(NoId, NoId, 1, NoId, <<1, MaxDay>>, <<1, DefaultPageSize>>)}
PagingCreatePayloads ==
    {[concept |-> 1, volume |-> 2, status |-> "ABSENT", partial |-> FALSE],
     [concept |-> 1, volume |-> 2, status |-> "APPROVED", partial |-> FALSE],
     [concept |-> 2, volume |-> 3, status |-> "APPROVED", partial |-> FALSE]}
PagingItemPayloads ==
    {[estimation |-> 1, concept |-> 1, volume |-> 0, amount |-> 300,
      partial |-> FALSE],
     [estimation |-> 1, concept |-> 2, volume |-> 5, amount |-> 300,
      partial |-> FALSE]}

PagingNext ==
    \/ \E p \in PagingCreatePayloads : PhysicalCreate("staff", p)
    \/ \E p \in PagingItemPayloads : EstimationItemCreate("staff", p)
    \/ \E q \in PagingRequests : Summary(q)

SpecPaging == Init /\ [][PagingNext]_vars

(* Requests to the estimation endpoints, with items on the estimations *)
EstimationPayloads ==
    {[total_amount |-> t, period_start |-> 1, period_end |-> 5,
      partial |-> FALSE] : t \in {Absent, 500}}
    \cup {[total_amount |-> t, period_start |-> Absent,
           period_end |-> Absent, partial |-> TRUE] : t \in {Absent, 700}}
    \cup {[total_amount |-> Absent, period_start |-> 5, period_end |-> 1,
           partial |-> FALSE]}
WriteItemPayloads ==
    {[estimation |-> e, concept |-> 1, volume |-> 2, amount |-> 300,
      partial |-> FALSE] : e \in {1, MaxEstimations}}

EstimationWriteNext ==
    \/ \E p \in EstimationPayloads :
          /\ Cardinality(DOMAIN estimations) < MaxEstimations
          /\ EstimationCreate("staff", p)
    \/ \E u \in {"staff", "resident"}, e \in {1, 2, MaxEstimations},
          p \in EstimationPayloads :
          EstimationUpdate(u, e, p)
    \/ \E p \in WriteItemPayloads : EstimationItemCreate("staff", p)
    \/ \E i \in 1..MaxDetails : EstimationItemDelete("staff", i)

SpecEstimationWrite == Init /\ [][EstimationWriteNext]_vars

(* Records created, reviewed on later days, and the analytics read *)
AnalyticsCreatePayloads ==
    [concept : {1}, volume : {2}, status : {"ABSENT", "REJECTED"},
     partial : {FALSE}]
AnalyticsUpdatePayloads ==
    [concept : {Absent}, volume : {Absent}, status : PhysicalStatuses,
     partial : {TRUE}]

AnalyticsNext ==
    \/ \E p \in AnalyticsCreatePayloads : PhysicalCreate("staff", p)
    \/ \E i \in 1..MaxPhysical, p \in AnalyticsUpdatePayloads :
          PhysicalUpdate("staff", i, p)
    \/ Tick(3)
    \/ ApprovalAnalytics

SpecAnalytics == Init /\ [][AnalyticsNext]_vars

(* Requests to the schedule and activity endpoints *)
SchedulePayloads ==
    {[name |-> "ABSENT", is_active |-> "true", partial |-> TRUE],
     [name |-> "ABSENT", is_active |-> "false", partial |-> FALSE]}
ScheduleCreatePayloads ==
    {ActivityPayload(1, 1, 5, Absent, {1}, FALSE),
     ActivityPayload(1, 5, 3, Absent, {Absent}, FALSE),
     ActivityPayload(2, 3, 8, 150, {Absent}, FALSE),
     ActivityPayload(2, 3, 8, 1000, {Absent}, FALSE)}
ScheduleActivityPayloads ==
    {ActivityPayload(Absent, Absent, Absent, -5, {Absent}, TRUE),
     ActivityPayload(Absent, Absent, Absent, Absent, {2}, FALSE)}
ProgressInputs ==
    {[kind |-> "none", value |-> 0], [kind |-> "text", value |-> 0]}
    \cup {[kind |-> "number", value |-> v] : v \in {-1, 50, 101}}

ScheduleNext ==
    \/ \E s \in 1..MaxSchedules : ScheduleDeactivate("staff", s)
    \/ \E s \in 1..MaxSchedules, p \in SchedulePayloads :
          ScheduleUpdate("staff", s, p)
    \/ \E s \in 1..MaxSchedules :
          /\ Cardinality(Schedules) < MaxSchedules
          /\ s \in Schedules =>
                nextActivityId + Cardinality(ScheduleActivities(s)) - 1
                    <= MaxActivities
          /\ ScheduleDuplicate("staff", s)
    \/ \E p \in ScheduleCreatePayloads :
          nextActivityId <= MaxActivities /\ ActivityCreate("staff", p)
    \/ \E a \in 1..MaxActivities, p \in ScheduleActivityPayloads :
          ActivityUpdate("staff", a, p)
    \/ \E a \in 1..MaxActivities, progress \in ProgressInputs :
          ActivityUpdateProgress("staff", a, progress)

SpecSchedule == InitCrono /\ [][ScheduleNext]_vars

(* Imports from the schedules, and items written by hand *)
ImportPayloads ==
    {[construction_id |-> 1, schedule_id |-> sid, period_start |-> w[1],
      period_end |-> w[2], name |-> n] :
        sid \in {1, 2, 9, Absent},
        w \in {<<11, 15>>, <<5, 9>>, <<11, 20>>},
        n \in {"Plan importado", ""}}
ImportItemPayloads ==
    [estimation : {1, MaxEstimations}, concept : {1, 2}, volume : {-1, 0, 2},
     amount : {200}, partial : {FALSE}]
ImportItemUpdates ==
    [estimation : {Absent}, concept : {Absent}, volume : {Absent, 0},
     amount : {Absent, 300}, partial : {TRUE}]

ImportNext ==
    \/ \E p \in ImportPayloads :
          /\ Cardinality(DOMAIN estimations) < MaxEstimations
          /\ ImportFromSchedule("staff", p)
    \/ \E p \in ImportItemPayloads : EstimationItemCreate("staff", p)
    \/ \E i \in 1..MaxDetails, p \in ImportItemUpdates :
          EstimationItemUpdate("staff", i, p)

SpecImport == Init /\ [][ImportNext]_vars

(* Summaries over periods of many lengths, in a store without activities *)
WeekPeriods ==
    {<<1, 7>>, <<1, 8>>, <<1, MaxDay>>, <<3, 3>>, <<5, 4>>, <<2, 15>>,
     <<1, 7 * YearDays>>, <<1, 7 * YearDays + 1>>}
WeekRequests ==
    {SummaryRequest(NoId, NoId, NoId, NoId, w, <<1, DefaultPageSize>>) :
        w \in WeekPeriods}
WeekCreatePayloads ==
    {[concept |-> c, volume |-> 2, status |-> "APPROVED", partial |-> FALSE] :
        c \in {1, 2}}

WeekNext ==
    \/ \E p \in WeekCreatePayloads : PhysicalCreate("staff", p)
    \/ \E i \in 1..MaxPhysical, p \in ExecUpdatePayloads :
          PhysicalUpdate("staff", i, p)
    \/ Tick(WeekDays)
    \/ \E q \in WeekRequests : Summary(q)

SpecWeeks == InitCrono /\ [][WeekNext]_vars

(* Dashboards over periods with and without the records and estimations *)
DashboardRequests ==
    {[concept |-> NoId, work_item |-> NoId, catalog |-> k, schedule |-> sid,
      period_start |-> w[1], period_end |-> w[2]] :
        k \in {NoId, 1}, sid \in {NoId, 2},
        w \in {<<1, MaxDay>>, <<8, MaxDay>>, <<5, 4>>, <<11, 15>>,
               <<21, 25>>, <<Absent, Absent>>}}
DashboardCreatePayloads ==
    {[concept |-> c, volume |-> 2, status |-> st, partial |-> FALSE] :
        c \in {1, 2}, st \in {"ABSENT", "APPROVED"}}
DashboardItemPayloads ==
    {[estimation |-> e, concept |-> 1, volume |-> 2, amount |-> 300,
      partial |-> FALSE] : e \in {1, 3}}

DashboardNext ==
    \/ \E p \in DashboardCreatePayloads : PhysicalCreate("staff", p)
    \/ \E p \in DashboardItemPayloads : EstimationItemCreate("staff", p)
    \/ Tick(WeekDays)
    \/ \E q \in DashboardRequests : Dashboard(q)

SpecDashboard == Init /\ [][DashboardNext]_vars

----------------------------------------------------------------------------
(* Properties of the estimation totals *)

\* C1: after any sequence of estimation-item creates, updates and deletes
\* (an update that moves a detail to another Estimation included), every
\* Estimation's stored total_amount is the sum of the amounts of the details
\* that belong to it, and 0 when it has none.
TotalAmountIsSumOfDetails ==
    \A e \in DOMAIN estimations :
        estimations[e].total_amount =
            SumFn([i \in DOMAIN details |->
                      IF details[i].estimation = e THEN details[i].amount
                      ELSE 0],
                  DOMAIN details)

----------------------------------------------------------------------------
(* Properties of the Progress Ledger *)

\* An update of record i by user u that the endpoint has no reason to
\* refuse and that writes a status
WritesStatus(u, i, p) ==
    /\ i \in DOMAIN physical
    /\ Restricted(u) =>
          ConceptConstruction(physical[i].concept) \in UserConstructions(u)
    /\ p.status \in PhysicalStatuses
    /\ IF p.concept = Absent THEN p.partial
       ELSE /\ p.concept \in Concepts
            /\ Restricted(u) =>
                  ConceptConstruction(p.concept) \in UserConstructions(u)
    /\ IF p.volume = Absent THEN p.partial ELSE p.volume > 0

\* C2: an update that writes status new over status old is accepted for
\* every pair of statuses; when old # new exactly one history row
\* (old, new, actor or null) is appended, when old = new none is.
StatusWriteRecorded ==
    [][resp'.op = "physical_update" =>
          LET u == resp'.user
              i == resp'.id
              p == resp'.req
          IN WritesStatus(u, i, p) =>
                /\ resp'.code = 200
                /\ physical'[i].status = p.status
                /\ history' =
                      IF physical[i].status # p.status
                      THEN Append(history,
                              [physical        |-> i,
                               previous_status |-> physical[i].status,
                               new_status      |-> p.status,
                               changed_at      |-> today,
                               changed_by      |-> IF u = "anon" THEN "null"
                                                   ELSE u])
                      ELSE history]_vars

\* A REJECTED record has been approved by an unauthenticated caller after
\* an earlier change, and the last update wrote the status it already had
RejectedReapproved ==
    /\ Len(history) = 2
    /\ history[2].previous_status = "REJECTED"
    /\ history[2].new_status = "APPROVED"
    /\ history[2].changed_by = "null"
    /\ resp.op = "physical_update"
    /\ resp.code = 200
    /\ resp.req.status = "APPROVED"
    /\ resp.id = history[2].physical
    /\ resp.user = "staff"

\* C3: a record that create has just produced has status PENDING whatever
\* the payload carried, and no stored record has a volume <= 0.
CreatedPending ==
    /\ (resp.op = "physical_create" /\ resp.code = 201) =>
           physical[resp.id].status = "PENDING"
    /\ \A i \in DOMAIN physical : physical[i].volume > 0

----------------------------------------------------------------------------
(* Properties of the Commitment Tracker *)

\* C10: after every successful create or update of a CommitmentTracking
\* row, variance_percentage is set exactly when actual_volume is present and
\* planned_volume > 0, and then it is (actual - planned) / planned x 100 of
\* the stored volumes (to the two decimals the column keeps); otherwise it
\* is unset.
VarianceFollowsVolumes ==
    \A k \in DOMAIN commitments :
        LET row == commitments[k]
            planned == row.planned_volume
            actual == row.actual_volume
            stored == row.variance_percentage
            exact == (actual - planned) * 10000
        IN IF actual # Null /\ planned > 0
           THEN /\ stored # Null
                /\ 2 * (stored * planned - exact) <= planned
                /\ 2 * (exact - stored * planned) <= planned
           ELSE stored = Null

----------------------------------------------------------------------------
(* Properties of the executed volumes of the summary *)

\* The volume of the APPROVED records of concept c dated in [ps, pe]
ApprovedInPeriod(c, ps, pe) ==
    SumFn([i \in DOMAIN physical |->
              IF /\ physical[i].concept = c
                 /\ physical[i].status = "APPROVED"
                 /\ ps <= physical[i].date
                 /\ physical[i].date <= pe
              THEN physical[i].volume ELSE 0],
          DOMAIN physical)

\* C4: the executed volume the summary reports for a concept is the sum of
\* the volume of the records of that concept that are APPROVED and dated in
\* the period; PENDING and REJECTED records, a record that was APPROVED
\* before included, do not contribute.
ExecutedIsApprovedInPeriod ==
    (resp.op = "summary" /\ resp.code = 200) =>
        \A k \in 1..Len(resp.details) :
            resp.details[k].executed_volume =
                ApprovedInPeriod(resp.details[k].id, resp.period.start_date,
                                 resp.period.end_date)

\* A summary reports an executed volume for a concept that also has, in the
\* period, a record whose approval was withdrawn
ExecutedWithWithdrawnApproval ==
    /\ resp.op = "summary"
    /\ resp.code = 200
    /\ \E k \in 1..Len(resp.details), i \in DOMAIN physical,
          h \in 1..Len(history) :
          /\ resp.details[k].executed_volume > 0
          /\ physical[i].concept = resp.details[k].id
          /\ physical[i].status = "REJECTED"
          /\ physical[i].date >= resp.period.start_date
          /\ physical[i].date <= resp.period.end_date
          /\ history[h].physical = i
          /\ history[h].previous_status = "APPROVED"

\* C9: the executed_volume of the weekly buckets of a summary adds up to
\* the period's executed volume: the APPROVED volume dated in the period of
\* the concepts that pass the request's filters.
WeeksAddUpToPeriod ==
    (resp.op = "summary" /\ resp.code = 200) =>
        SumRows(resp.weeks, "executed_volume") =
            SumFn([c \in Concepts |->
                      ApprovedInPeriod(c, resp.period.start_date,
                                       resp.period.end_date)],
                  ConceptsQuery(resp.req))

----------------------------------------------------------------------------
(* Properties of the Schedule Allocator *)

\* The activities of schedule s with a day in [ps, pe] that carry concept c
ActivitiesFor(s, c, ps, pe) ==
    {a \in Activities :
        /\ ActivitySchedule(a) = s
        /\ c \in ActivityConcepts(a)
        /\ ActivityStart(a) <= pe
        /\ ActivityEnd(a) >= ps}

\* The sum over the activities acts of overlap_days / total_days, as the
\* fraction num / den
RECURSIVE ShareOfPeriod(_, _, _)
ShareOfPeriod(acts, ps, pe) ==
    IF acts = {} THEN [num |-> 0, den |-> 1]
    ELSE LET a == CHOOSE x \in acts : TRUE
             rest == ShareOfPeriod(acts \ {a}, ps, pe)
             overlap == Min(ActivityEnd(a), pe) - Max(ActivityStart(a), ps) + 1
             total == ActivityEnd(a) - ActivityStart(a) + 1
         IN [num |-> overlap * rest.den + rest.num * total,
             den |-> total * rest.den]

\* C5: with a schedule resolved, every activity (start <= end) of it adds to
\* each associated, filtered concept quantity x overlap_days / total_days:
\* the summary answers, and the programmed volume of such a concept is the
\* sum of these shares (the full quantity for an activity inside the period,
\* 50 of 100 for half of its days).
ProratedByOverlap ==
    (resp.op = "summary" /\ resp.req.schedule \in Schedules) =>
        /\ resp.code = 200
        /\ \A c \in ConceptsQuery(resp.req) :
              LET ps == resp.period.start_date
                  pe == resp.period.end_date
                  acts == ActivitiesFor(resp.req.schedule, c, ps, pe)
                  share == ShareOfPeriod(acts, ps, pe)
              IN (/\ acts # {}
                  /\ \A a \in acts : ActivityStart(a) <= ActivityEnd(a)) =>
                     /\ c \in DOMAIN resp.programmed_volumes
                     /\ resp.programmed_volumes[c].n * share.den =
                           ConceptQuantity(c) * share.num
                             * resp.programmed_volumes[c].d

\* Schedule s has, in the period, an activity with a filtered concept
ScheduleYields(s, q, ps, pe) ==
    \E c \in ConceptsQuery(q) : ActivitiesFor(s, c, ps, pe) # {}

\* Planned estimation e overlaps the period and has a detail of a filtered
\* concept
EstimationYields(e, q, ps, pe) ==
    /\ estimations[e].is_planned
    /\ estimations[e].period_start <= pe
    /\ estimations[e].period_end >= ps
    /\ \E i \in DOMAIN details :
          details[i].estimation = e /\ details[i].concept \in ConceptsQuery(q)

\* The active schedules of the constructions of the filtered concepts that
\* yield a mapping
ActiveYielding(q, ps, pe) ==
    {s \in Schedules :
        /\ schedActive[s]
        /\ \E c \in ConceptsQuery(q) :
              ScheduleConstruction(s) = ConceptConstruction(c)
        /\ ScheduleYields(s, q, ps, pe)}

\* The sources the fallback chain may name: those of the first of the three
\* kinds of source that yields a mapping
FirstSources(q, ps, pe) ==
    IF q.schedule \in Schedules /\ ScheduleYields(q.schedule, q, ps, pe)
    THEN {ScheduleSource(q.schedule)}
    ELSE IF ActiveYielding(q, ps, pe) # {}
    THEN {ScheduleSource(s) : s \in ActiveYielding(q, ps, pe)}
    ELSE IF \E e \in DOMAIN estimations : EstimationYields(e, q, ps, pe)
    THEN {EstimationSource(e) :
             e \in {x \in DOMAIN estimations : EstimationYields(x, q, ps, pe)}}
    ELSE {"absent"}

\* Every entry of the mapping pv comes from the one source src
FromOneSource(pv, src, q, ps, pe) ==
    \/ \E s \in Schedules :
          /\ src = ScheduleSource(s)
          /\ \A c \in DOMAIN pv : ActivitiesFor(s, c, ps, pe) # {}
    \/ \E e \in DOMAIN estimations :
          /\ src = EstimationSource(e)
          /\ \A c \in DOMAIN pv :
                /\ pv[c].d = 1
                /\ pv[c].n =
                      SumFn([i \in DOMAIN details |->
                                IF /\ details[i].estimation = e
                                   /\ details[i].concept = c
                                THEN details[i].volume ELSE 0],
                            DOMAIN details)

\* C6: the mapping of a summary is built from exactly one source, the first
\* of (requested schedule, active schedule, planned estimation) that yields
\* a non-empty mapping; values of two sources are never added together.
FirstSourceOnly ==
    (resp.op = "summary" /\ resp.code = 200) =>
        LET ps == resp.period.start_date
            pe == resp.period.end_date
        IN /\ resp.program_source \in FirstSources(resp.req, ps, pe)
           /\ DOMAIN resp.programmed_volumes # {} =>
                 FromOneSource(resp.programmed_volumes, resp.program_source,
                               resp.req, ps, pe)

\* C7: the active-schedule step is attempted exactly when the
\* requested-schedule step was not requested or produced an empty mapping;
\* when a requested schedule yields nothing and an active schedule of the
\* concepts' construction yields a mapping, that active schedule is the
\* source of the summary.
ActiveStepWhenExplicitEmpty ==
    (resp.op = "summary" /\ resp.code = 200) =>
        LET q == resp.req
            ps == resp.period.start_date
            pe == resp.period.end_date
            explicit == q.schedule \in Schedules
                           /\ ScheduleYields(q.schedule, q, ps, pe)
        IN /\ 2 \in resp.steps <=> (q.schedule = NoId \/ ~explicit)
           /\ (q.schedule # NoId /\ ~explicit /\ ActiveYielding(q, ps, pe) # {})
                 => resp.program_source \in
                       {ScheduleSource(s) : s \in ActiveYielding(q, ps, pe)}

\* C8: program_status is "program_found" exactly when the mapping is
\* non-empty; then program_source names the schedule or planned estimation
\* that populated it; otherwise the status is "no_program" and there is no
\* program_source.
StatusTellsMapping ==
    (resp.op = "summary" /\ resp.code = 200) =>
        IF DOMAIN resp.programmed_volumes # {}
        THEN /\ resp.program_status = "program_found"
             /\ FromOneSource(resp.programmed_volumes, resp.program_source,
                              resp.req, resp.period.start_date,
                              resp.period.end_date)
        ELSE /\ resp.program_status = "no_program"
             /\ resp.program_source = "absent"

\* A summary found its program in a planned estimation with two details,
\* after a requested schedule that named itself as source gave nothing
FoundInEstimationAfterSchedule ==
    /\ resp.op = "summary"
    /\ resp.code = 200
    /\ resp.req.schedule \in Schedules
    /\ resp.program_status = "program_found"
    /\ resp.program_source = EstimationSource(2)
    /\ Cardinality(DOMAIN resp.programmed_volumes) = 2

----------------------------------------------------------------------------
(* Properties of the Critical Path Selector *)

\* The persisted critical activities of path k
CriticalRows(k) == {r \in criticalActivities : r.critical_path = k}

\* Two activities have a day in common in their ranges
\* [start_date, end_date]
ShareADay(a, b) ==
    Max(ActivityStart(a), ActivityStart(b))
        <= Min(ActivityEnd(a), ActivityEnd(b))

\* C11: after a critical-path calculation on a schedule with at least one
\* activity, the persisted critical activities read in sequence_order have
\* non-decreasing start_date and no two of them have a day in common
ChainOrderedAndDisjoint ==
    (resp.op = "calculate" /\ resp.code = 200) =>
        \A r1, r2 \in CriticalRows(resp.critical_path) :
            r1.sequence_order < r2.sequence_order =>
                /\ ActivityStart(r1.activity) <= ActivityStart(r2.activity)
                /\ ~ShareADay(r1.activity, r2.activity)

\* The positions I of the order o that a greedy pass keeps: the first one,
\* and every later one whose activity starts no earlier than the end of
\* the activity at the last kept position before it
GreedyPositions(o, I) ==
    /\ 1 \in I
    /\ \A i \in 2..Len(o) :
          LET tail == CHOOSE j \in I :
                         j < i /\ \A j2 \in I : j2 < i => j2 <= j
          IN (i \in I) <=> ActivityStart(o[i]) >= ActivityEnd(o[tail])

\* C12: after every successful critical-path calculation the schedule has
\* exactly one CriticalPath, and the critical activities of that path are
\* exactly the greedy selection over the schedule's current activities in
\* an ascending start_date order, numbered 1..n in selection order; no
\* other row remains
PathReplacedByGreedyChain ==
    (resp.op = "calculate" /\ resp.code = 200) =>
        /\ Cardinality(PathOf(resp.schedule)) = 1
        /\ PathOf(resp.schedule) = {resp.critical_path}
        /\ \E o \in StartDateOrders(resp.schedule) :
              \E I \in SUBSET (1..Len(o)) :
                 /\ GreedyPositions(o, I)
                 /\ CriticalRows(resp.critical_path) =
                       {[critical_path |-> resp.critical_path,
                         activity |-> o[i],
                         sequence_order |-> Cardinality({j \in I : j <= i})] :
                           i \in I}

\* C12 witness: a repeated calculation after an activity was re-dated and
\* another was deleted; the re-dated activity is in the new chain
RecalculatedAfterChanges ==
    /\ resp.op = "calculate" /\ resp.code = 200 /\ ~resp.created
    /\ Cardinality(Activities) < nextActivityId - 1
    /\ \E r \in CriticalRows(resp.critical_path) :
          /\ ActivityStart(r.activity) = 6
          /\ r.sequence_order = 2

----------------------------------------------------------------------------
(* Properties of schedules and activities *)

\* C13: once a Schedule's is_active flag is false, no schedule operation
\* (deactivate, update through the schedule endpoint, duplicate) makes
\* that schedule active again
DeactivationIsTerminal ==
    [][\A s \in Schedules :
          ~schedActive[s] => (s \in DOMAIN schedActive' /\ ~schedActive'[s])]_vars

\* C18: every Activity has start_date <= end_date and
\* 0 <= progress_percentage <= 100
ActivitiesWellFormed ==
    \A a \in Activities :
        /\ ActivityStart(a) <= ActivityEnd(a)
        /\ activities[a].progress_percentage >= 0
        /\ activities[a].progress_percentage <= 100

----------------------------------------------------------------------------
(* Properties of requests served at the same time *)

\* C14: two detail writes on the same Estimation are not serialized: the
\* total a request saves is the sum it read at its own read, whatever the
\* other request did to the details in between
SavesTheTotalItRead ==
    [][\A r \in Requests :
          (At(r, "read") /\ inflight'[r].pc = "done") =>
              estimations'[inflight[r].estimation].total_amount
                  = inflight[r].total]_vars

\* C14 witness: both requests have completed and the stored total_amount
\* of the Estimation both wrote to is not the sum of its details
LostTotalUpdate ==
    /\ \A r \in Requests : At(r, "done") /\ inflight[r].estimation = 1
    /\ estimations[1].total_amount # CalculateTotal(details, 1)

\* C15: a status update is not atomic with its history append: the row a
\* request appends names as previous_status the status that request read
\* before it saved, and is appended only if that differs from the status
\* the request saved, whatever other requests wrote in between
RecordsTheStatusItRead ==
    [][\A r \in Requests :
          (At(r, "saved") /\ inflight'[r].pc = "done") =>
              IF inflight[r].old_status = inflight[r].instance.status
              THEN history' = history
              ELSE /\ Len(history') = Len(history) + 1
                   /\ SubSeq(history', 1, Len(history)) = history
                   /\ Last(history').physical = inflight[r].id
                   /\ Last(history').previous_status = inflight[r].old_status
                   /\ Last(history').new_status
                         = inflight[r].instance.status]_vars

\* C15 witness: both requests have completed on record 1; its two history
\* rows have the same previous_status and the new_status of the last row
\* is not the status the record has
HistoryMisdescribesStatus ==
    /\ \A r \in Requests : At(r, "done") /\ inflight[r].id = 1
    /\ Len(history) = 2
    /\ history[1].physical = 1 /\ history[2].physical = 1
    /\ history[1].previous_status = history[2].previous_status
    /\ history[2].new_status # physical[1].status

----------------------------------------------------------------------------
(* Properties of the approval analytics *)

\* The history rows that record a PENDING -> APPROVED transition
PendingToApproved ==
    {k \in DOMAIN history :
        <<history[k].previous_status, history[k].new_status>>
            = <<"PENDING", "APPROVED">>}

\* C16: the approval latency is the average, over exactly the history
\* rows PENDING -> APPROVED, of the days from the record's date to the
\* day of changed_at, and 0 when there is no such row
LatencyIsAverageOfPendingApprovals ==
    resp.op = "analytics" =>
        LET n == Cardinality(PendingToApproved)
            days == [k \in PendingToApproved |->
                        history[k].changed_at
                            - physical[history[k].physical].date]
            avg == resp.avg_approval_time
        IN /\ resp.total_approvals = n
           /\ IF n = 0 THEN avg.n = 0
              ELSE avg.n * n = SumFn(days, PendingToApproved) * avg.d

\* C16 witness: one record approved three days after its date gives 3.0
\* while a REJECTED -> APPROVED row of another record stays out
ApprovedThreeDaysLater ==
    /\ resp.op = "analytics"
    /\ resp.total_approvals = 1
    /\ resp.avg_approval_time.n = 3 * resp.avg_approval_time.d
    /\ \E k \in DOMAIN history :
          /\ history[k].previous_status = "REJECTED"
          /\ history[k].new_status = "APPROVED"

----------------------------------------------------------------------------
(* Properties of the status history as an audit trail *)

\* C17: status history is append-only and immutable: no ledger operation
\* on Physical records removes or alters a written row, so the number of
\* history rows never decreases
HistoryOnlyGrows ==
    [][/\ Len(history') >= Len(history)
       /\ SubSeq(history', 1, Len(history)) = history]_vars

----------------------------------------------------------------------------
(* Properties of the estimation endpoints *)

\* C20: a create or update of an Estimation whose payload carries a
\* total_amount leaves the stored total_amount equal to the sum of the
\* amounts of its details (0 for a new estimation)
AuthoredTotalIgnored ==
    (/\ resp.op \in {"estimation_create", "estimation_update"}
     /\ resp.code \in {200, 201}
     /\ resp.req.total_amount # Absent) =>
        estimations[resp.id].total_amount = CalculateTotal(details, resp.id)

----------------------------------------------------------------------------
(* Properties of the paging of the summary *)

\* The page of a set of concepts in id order: the rows at positions
\* (p-1)*s .. p*s-1, counted from 0
PageOf(S, p, s) ==
    LET all == SortedIds(S)
    IN [k \in 1..Max(0, Min(s, Len(all) - (p - 1) * s)) |->
           all[(p - 1) * s + k]]

\* The response pages the set S: its rows, total_items and
\* total_pages = ceil(total_items / page_size)
PagesSet(S) ==
    LET q == resp.req
        n == Cardinality(S)
    IN /\ [k \in 1..Len(resp.details) |-> resp.details[k].id]
             = PageOf(S, q.page, q.page_size)
       /\ resp.pagination.total_items = n
       /\ resp.pagination.total_pages * q.page_size >= n
       /\ (resp.pagination.total_pages - 1) * q.page_size < n
             \/ (n = 0 /\ resp.pagination.total_pages = 0)

\* The executed volume of concept c in the period of the response
ExecutedInResponsePeriod(c) ==
    ApprovedInPeriod(c, resp.period.start_date, resp.period.end_date)

NoFilterGiven ==
    /\ resp.req.concept = NoId
    /\ resp.req.work_item = NoId
    /\ resp.req.catalog = NoId

\* C19: the paged concept rows are the filtered active concepts with
\* non-zero programmed or non-zero executed volume; when there is none and
\* no concept, work_item or catalog filter was given, the full filtered
\* set; page p of size s holds positions (p-1)*s .. p*s-1 and
\* total_pages = ceil(total_items / s)
PagesNonZeroConcepts ==
    (resp.op = "summary" /\ resp.code = 200) =>
        LET pv == resp.programmed_volumes
            cq == ConceptsQuery(resp.req)
            nonzero == {c \in cq :
                          \/ c \in DOMAIN pv /\ pv[c].n # 0
                          \/ ExecutedInResponsePeriod(c) # 0}
        IN PagesSet(IF nonzero = {} /\ NoFilterGiven THEN cq ELSE nonzero)

\* C19, as the handler behaves: the paged concept rows are the filtered
\* active concepts that have an entry in the programmed mapping or a
\* non-zero executed volume; when there is none, the full filtered set,
\* with or without a filter; page p of size s holds positions
\* (p-1)*s .. p*s-1 and total_pages = ceil(total_items / s)
PagesConceptsWithEntries ==
    (resp.op = "summary" /\ resp.code = 200) =>
        LET pv == resp.programmed_volumes
            cq == ConceptsQuery(resp.req)
            entered == {c \in cq :
                          \/ c \in DOMAIN pv
                          \/ ExecutedInResponsePeriod(c) # 0}
        IN PagesSet(IF entered = {} THEN cq ELSE entered)

\* C19 witness: a concept filter was given, no concept has a programmed
\* entry or an executed volume, and the page holds the filtered concept
FilteredFallbackPaged ==
    /\ resp.op = "summary" /\ resp.code = 200
    /\ resp.req.concept = 2
    /\ DOMAIN resp.programmed_volumes = {}
    /\ ExecutedInResponsePeriod(2) = 0
    /\ Len(resp.details) = 1
    /\ resp.details[1].id = 2
    /\ physical # <<>>

----------------------------------------------------------------------------
(* Properties of estimation details and of the import from a schedule *)

\* C21: every EstimationDetail has volume > 0 and amount > 0, and no two
\* details share the same (estimation, concept) pair
DetailsPositiveAndUnique ==
    /\ \A i \in DOMAIN details :
          details[i].volume > 0 /\ details[i].amount > 0
    /\ \A i, j \in DOMAIN details :
          (/\ details[i].estimation = details[j].estimation
           /\ details[i].concept = details[j].concept) => i = j

\* The (activity, concept) pairs an import request covers
ImportPairs(p) ==
    {x \in OverlappingActivities(p.schedule_id, p.period_start, p.period_end)
             \X Concepts : x[2] \in ActivityConcepts(x[1])}

\* A complete import request on an existing construction and schedule
ImportServable(p) ==
    /\ Absent \notin {p.construction_id, p.schedule_id, p.period_start,
                      p.period_end}
    /\ p.name # ""
    /\ p.construction_id \in Constructions
    /\ p.schedule_id \in Schedules

\* C22: every schedule-import of a complete request ends with one new
\* planned Estimation holding one detail per (overlapping activity,
\* concept) pair, with volume = quantity x fraction of the activity inside
\* the period, amount = volume x unit_price and total_amount the sum of
\* the amounts; no import leaves an estimation with fewer details or
\* another total
ImportCreatesProratedPlan ==
    [][resp'.op = "import" /\ ImportServable(resp'.req) =>
          LET p   == resp'.req
              new == DOMAIN estimations' \ DOMAIN estimations
          IN /\ Cardinality(new) = 1
             /\ \A e \in new :
                   LET ds == {i \in DOMAIN details' :
                                 details'[i].estimation = e}
                   IN /\ estimations'[e].is_planned
                      /\ Cardinality(ds) = Cardinality(ImportPairs(p))
                      /\ \A x \in ImportPairs(p) : \E i \in ds :
                            /\ details'[i].concept = x[2]
                            /\ details'[i].volume * TotalActivityDays(x[1])
                                 = ConceptQuantity(x[2])
                                     * Min(TotalActivityDays(x[1]),
                                           DaysInPeriod(x[1], p.period_start,
                                                        p.period_end))
                            /\ details'[i].amount
                                 = details'[i].volume * ConceptUnitPrice(x[2])
                      /\ estimations'[e].total_amount
                           = CalculateTotal(details', e)]_vars

----------------------------------------------------------------------------
(* Properties of the summary block *)

\* The rows of all relevant concepts of a request, whatever the page
AllRows(q) ==
    LET ps == PeriodStart(q)
        pe == PeriodEnd(q)
        pv == resp.programmed_volumes
        ev == ExecutedVolumes(q, ps, pe)
    IN [c \in RelevantConcepts(q, pv, ev) |-> DetailRow(c, pv, ev, ps, pe)]

RECURSIVE SumProgrammedOf(_, _)
SumProgrammedOf(rows, S) ==
    IF S = {} THEN PyInt(0)
    ELSE LET c == CHOOSE x \in S : TRUE
         IN PyAdd(rows[c].programmed_amount, SumProgrammedOf(rows, S \ {c}))

\* C23: the summary block of a 200 response is a period-level total: the
\* sums of programmed_volume x unit_price and executed_volume x unit_price
\* over all relevant concepts, the percentage of the two and the number of
\* completed concepts among them, whatever page and page_size were asked
SummaryIsPeriodTotal ==
    (resp.op = "summary" /\ resp.code = 200) =>
        LET rows == AllRows(resp.req)
            programmed == SumProgrammedOf(rows, DOMAIN rows)
            executed == SumFn([c \in DOMAIN rows |-> rows[c].executed_amount],
                              DOMAIN rows)
            s == resp.summary
        IN /\ s.total_executed_amount = executed
           /\ s.total_programmed_amount.n * programmed.d
                = programmed.n * s.total_programmed_amount.d
           /\ s.completed_concepts
                = Cardinality({c \in DOMAIN rows : rows[c].completed})
           /\ IF programmed.n > 0
              THEN s.period_percentage.n * programmed.n
                     = executed * 100 * programmed.d * s.period_percentage.d
              ELSE s.period_percentage.n = 0

----------------------------------------------------------------------------
(* Properties of the weekly buckets *)

\* C24: the weekly buckets of a summary partition [period_start,
\* period_end] into consecutive windows: the first starts at period_start,
\* each covers min(7, days remaining) days, each next one starts the day
\* after the previous one ends, the last ends at period_end, and there are
\* ceil(period_days / 7) of them; an empty period yields no bucket
WeeksPartitionPeriod ==
    (resp.op = "summary" /\ resp.code = 200) =>
        LET ps == resp.period.start_date
            pe == resp.period.end_date
            w  == resp.weeks
            n  == Len(w)
        IN IF ps > pe THEN n = 0
           ELSE /\ n = (pe - ps + 1 + WeekDays - 1) \div WeekDays
                /\ w[1].start_date = ps
                /\ w[n].end_date = pe
                /\ \A k \in 1..n :
                      w[k].end_date = Min(w[k].start_date + WeekDays - 1, pe)
                /\ \A k \in 1..(n - 1) :
                      w[k + 1].start_date = w[k].end_date + 1

----------------------------------------------------------------------------
(* Properties of the planned-estimation fallback *)

\* A schedule filled the mapping of the response
ScheduleMapped ==
    /\ resp.program_status = "program_found"
    /\ \E s \in Schedules : resp.program_source = ScheduleSource(s)

\* The mapping the fallback gives from the planned estimations S: the
\* volumes, in full, of the details of filtered concepts of the first
\* estimation of S in the order of iteration
FallbackVolumes(S, q) ==
    IF S = {} THEN <<>>
    ELSE LET e == Head(ByPeriodStartDesc(S))
             rows == {i \in DOMAIN details :
                         /\ details[i].estimation = e
                         /\ details[i].concept \in ConceptsQuery(q)}
         IN [c \in {details[i].concept : i \in rows} |->
                SumFn([i \in DOMAIN details |-> details[i].volume],
                      {i \in rows : details[i].concept = c})]

\* The response carries exactly the mapping pv of whole volumes
MappingIs(pv) ==
    /\ DOMAIN resp.programmed_volumes = DOMAIN pv
    /\ \A c \in DOMAIN pv :
          /\ resp.programmed_volumes[c].d = 1
          /\ resp.programmed_volumes[c].n = pv[c]

\* C25: the planned-estimation fallback is used only when no schedule
\* produced a mapping; then the programmed volumes are the detail volumes,
\* in full, of the first planned estimation overlapping the period that has
\* details of the filtered concepts, and of no later one
FallbackFromFirstPlanned ==
    (resp.op = "summary" /\ resp.code = 200) =>
        LET q == resp.req
            ps == resp.period.start_date
            pe == resp.period.end_date
        IN /\ 3 \in resp.steps <=> ~ScheduleMapped
           /\ ~ScheduleMapped =>
                 MappingIs(FallbackVolumes(
                    {e \in DOMAIN estimations : EstimationYields(e, q, ps, pe)},
                    q))

\* C25, as the handler behaves: with a catalog filter the planned
\* estimations considered are only those of the constructions of the
\* filtered concepts; among the estimations considered the first with
\* details of the filtered concepts gives the volumes, in full
FallbackFromFirstPlannedOfConstruction ==
    (resp.op = "summary" /\ resp.code = 200) =>
        LET q == resp.req
            ps == resp.period.start_date
            pe == resp.period.end_date
        IN /\ 3 \in resp.steps <=> ~ScheduleMapped
           /\ ~ScheduleMapped =>
                 MappingIs(FallbackVolumes(
                    {e \in DOMAIN estimations :
                        /\ EstimationYields(e, q, ps, pe)
                        /\ q.catalog # NoId =>
                              estimations[e].construction \in
                                 {ConceptConstruction(c) :
                                     c \in ConceptsQuery(q)}},
                    q))

\* A summary took its volumes in full from a planned estimation that
\* begins before the requested period, while an earlier planned estimation
\* with details of the filtered concepts was left out
PartlyOverlappingPlanUsed ==
    /\ resp.op = "summary"
    /\ resp.code = 200
    /\ 3 \in resp.steps
    /\ resp.program_source = EstimationSource(2)
    /\ estimations[2].period_start < resp.period.start_date
    /\ EstimationYields(1, resp.req, resp.period.start_date,
                        resp.period.end_date)
    /\ \E c \in DOMAIN resp.programmed_volumes :
          resp.programmed_volumes[c].n = 5

----------------------------------------------------------------------------
(* Properties of the approval metadata of the summary *)

\* The PENDING -> APPROVED history rows of the records of concept c dated
\* in [ps, pe] that are APPROVED now
PendingApprovals(c, ps, pe) ==
    {h \in 1..Len(history) :
        /\ history[h].previous_status = "PENDING"
        /\ history[h].new_status = "APPROVED"
        /\ history[h].physical \in DOMAIN physical
        /\ physical[history[h].physical].concept = c
        /\ physical[history[h].physical].status = "APPROVED"
        /\ physical[history[h].physical].date >= ps
        /\ physical[history[h].physical].date <= pe}

\* C26: for every concept with executed volume, approval_info is taken
\* from the most recent PENDING -> APPROVED history row of the concept's
\* records dated in the period, days_to_approve being the row's changed_at
\* day minus the record's date; rows with another previous_status or of a
\* record that is no longer APPROVED are not surfaced
ApprovalInfoFromPendingApproval ==
    (resp.op = "summary" /\ resp.code = 200) =>
        \A k \in 1..Len(resp.details) :
            LET row == resp.details[k]
                rows == PendingApprovals(row.id, resp.period.start_date,
                                         resp.period.end_date)
            IN row.executed_volume > 0 =>
                  IF rows = {} THEN row.approval_info = NoApproval
                  ELSE \E h \in rows :
                          /\ \A g \in rows :
                                history[g].changed_at <= history[h].changed_at
                          /\ row.approval_info =
                                [submission_date |->
                                     physical[history[h].physical].date,
                                 approval_date |-> history[h].changed_at,
                                 days_to_approve |->
                                     history[h].changed_at
                                       - physical[history[h].physical].date]

----------------------------------------------------------------------------
(* Properties of the dashboard *)

\* The details of concept c whose estimation is APPROVED or PAID and lies
\* inside [ps, pe]
FinancialOfPeriod(c, ps, pe) ==
    {i \in DashboardFinancial(c) :
        /\ estimations[details[i].estimation].period_start >= ps
        /\ estimations[details[i].estimation].period_end <= pe}

\* C27: the dashboard aggregates execution over the requested period: its
\* per-concept and total physical amounts count only the APPROVED Physical
\* records dated inside the period, its financial amounts only the details
\* of APPROVED or PAID estimations inside the period
DashboardCountsThePeriod ==
    (resp.op = "dashboard" /\ resp.code = 200) =>
        LET ps == resp.period.start_date
            pe == resp.period.end_date
            rows == resp.body.details
            physicalAmount ==
                [c \in DOMAIN rows |->
                    PhysicalOfPeriod(c, ps, pe) * ConceptUnitPrice(c)]
            financialAmount ==
                [c \in DOMAIN rows |->
                    SumFn([i \in DOMAIN details |-> details[i].amount],
                          FinancialOfPeriod(c, ps, pe))]
        IN /\ \A c \in DOMAIN rows :
                 /\ rows[c].physical_amount = physicalAmount[c]
                 /\ rows[c].financial_amount = financialAmount[c]
           /\ resp.body.summary.physical_amount
                = SumFn(physicalAmount, DOMAIN rows)
           /\ resp.body.summary.financial_amount
                = SumFn(financialAmount, DOMAIN rows)

\* The activities of a schedule that its persisted chain leaves out
Unselected(s, k) ==
    ScheduleActivities(s) \ {r.activity : r \in CriticalRows(k)}

\* Every activity of the schedule has start_date <= end_date
AllWellFormed(s) ==
    \A a \in ScheduleActivities(s) : ActivityStart(a) <= ActivityEnd(a)

\* C28: the chain persisted by a critical-path calculation is maximal: when
\* every activity of the schedule has start_date <= end_date, each activity
\* that was not selected has a day in common with a selected activity
ChainIsMaximal ==
    (resp.op = "calculate" /\ resp.code = 200
        /\ AllWellFormed(resp.schedule)) =>
        \A a \in Unselected(resp.schedule, resp.critical_path) :
            \E r \in CriticalRows(resp.critical_path) :
                ShareADay(a, r.activity)

\* A calculation that selected two activities and left out the one
\* between them
TwoSelectedOneLeftOut ==
    /\ resp.op = "calculate" /\ resp.code = 200
    /\ AllWellFormed(resp.schedule)
    /\ Cardinality(CriticalRows(resp.critical_path)) = 2
    /\ Cardinality(Unselected(resp.schedule, resp.critical_path)) = 1

\* A request that names no schedule, an unknown schedule, or a schedule
\* without activities
NothingToCalculate(sid) ==
    \/ sid = NoId
    \/ sid \notin Schedules
    \/ \A a \in Activities : ActivitySchedule(a) # sid

\* C29: a critical-path calculation without schedule id, on an unknown
\* schedule or on a schedule with no activities is answered with an error
\* and changes nothing: no CriticalPath is created or re-stamped and no
\* CriticalPathActivity row is created or deleted
FailedCalculationChangesNothing ==
    [][(resp'.op = "calculate" /\ NothingToCalculate(resp'.schedule)) =>
          /\ resp'.code \in {400, 404}
          /\ criticalPaths' = criticalPaths
          /\ criticalActivities' = criticalActivities
          /\ nextCriticalPathId' = nextCriticalPathId]_vars

\* A calculation refused on a later day for a schedule that lost its
\* activities, whose path keeps the stamp of the earlier day while another
\* schedule's path keeps its rows
RefusedOnEmptiedSchedule ==
    /\ resp.op = "calculate" /\ resp.code = 400
    /\ resp.schedule \in Schedules
    /\ \E k \in PathOf(resp.schedule) :
          criticalPaths[k].calculated_at < today
    /\ criticalActivities # {}

\* The history rows of one record, in the order of changed_at
\* (PhysicalStatusHistory.Meta.ordering; rows are appended as time passes)
HistoryRowsOf(hist, i) == SelectSeq(hist, LAMBDA r : r.physical = i)

\* Each row starts from the status the row before it ended in, and the last
\* row ends in the record's stored status
ChainOf(phys, hist, i) ==
    LET rows == HistoryRowsOf(hist, i)
    IN /\ \A j \in 1..(Len(rows) - 1) :
             /\ rows[j].changed_at <= rows[j + 1].changed_at
             /\ rows[j + 1].previous_status = rows[j].new_status
       /\ rows # <<>> => rows[Len(rows)].new_status = phys[i].status

\* A record begins without rows, keeps the status it was created with
\* while it has none, its first row starts from that status, and the first
\* row stays the first
StartsAtCreation(i) ==
    LET after == HistoryRowsOf(history', i)
    IN IF i \notin DOMAIN physical THEN after = <<>>
       ELSE LET before == HistoryRowsOf(history, i)
            IN IF before # <<>>
               THEN after # <<>> /\ after[1] = before[1]
               ELSE IF after = <<>>
               THEN physical'[i].status = physical[i].status
               ELSE after[1].previous_status = physical[i].status

\* C30: when requests are served one after another, the history of every
\* Physical record is a chain: read by changed_at, each row's
\* previous_status is the new_status of the row before it, the first row's
\* previous_status is the status the record was created with, the last
\* row's new_status is the record's current status, and a record without
\* rows still has its creation status
HistoryIsConsistentChain ==
    [][\A i \in DOMAIN physical' :
          ChainOf(physical', history', i) /\ StartsAtCreation(i)]_vars

\* A record created REJECTED, approved on a later day and sent back to
\* PENDING on a day after that
RejectedApprovedThenPending ==
    \E i \in DOMAIN physical :
       LET rows == HistoryRowsOf(history, i)
       IN /\ Len(rows) = 2
          /\ rows[1].previous_status = "REJECTED"
          /\ rows[1].new_status = "APPROVED"
          /\ rows[2].new_status = "PENDING"
          /\ physical[i].date < rows[1].changed_at
          /\ rows[1].changed_at < rows[2].changed_at
          /\ physical[i].status = "PENDING"

====
